---- MODULE Spec2Model ----
(***************************************************************************)
(* Reliability layer of the python-backend video pipeline: the entity      *)
(* store and its sessions, the transactional outbox and its publisher,     *)
(* the processed-message ledger, the status log, the consumer handlers     *)
(* and the stage tasks.                                                    *)
(*                                                                         *)
(* The module holds several specifications over one set of variables.      *)
(* Each specification drives one part of the program:                      *)
(*   SpecSave  _save_transcript_with_outbox / _save_summary_with_outbox    *)
(*   SpecPub   the outbox scheduler, the publish task and the producer     *)
(*   SpecMark  ProcessedMessageService.mark_as_processed, two callers      *)
(*   SpecLog   VideoStatusLogService.log_status_change, two callers        *)
(*   SpecTwice the same, one caller making its calls one after the other   *)
(*   SpecPipe  the consumer handler of a stage and the stage tasks it      *)
(*             dispatches, one event delivered more than once              *)
(*   SpecHandle the same, one task worker                                  *)
(*   SpecHandle also has storage errors in status updates and status log   *)
(*   SpecCycle one poll of the scheduler and the tasks it queues           *)
(*   SpecIncr  publish tasks whose sends fail, attempts counted            *)
(*   SpecLedger is_processed next to mark_as_processed                     *)
(*   SpecConsume the Kafka consumer loop around a stage handler            *)
(*   SpecWire  the message the publish task builds and its key             *)
(*   SpecKeep  one record whose sends keep failing, polled again and again *)
(*   SpecStamp mark_as_published called again at a later time              *)
(*   SpecList  get_unpublished_events over any outbox and limit            *)
(*   SpecBackoff calculate_exponential_backoff_delay over retry counts     *)
(*   SpecLoops the consumer loop and the scheduler loop, signals, errors   *)
(*   SpecBump  increment_attempts over any record                          *)
(*   SpecRace  a transcription task, the publisher and the summary stage   *)
(***************************************************************************)
EXTENDS Integers, Sequences, FiniteSets, TLC

(***************************************************************************)
(* Bounds of the model.                                                    *)
(***************************************************************************)
NumVideos == 2
NumWorkers == 2
NumEvents == 2
MaxCalls == 3
MaxOutbox == 2
MaxFaults == 1
SendCap == 1
CycleRecords == 3
MaxSendFailures == 3
MaxDeliveries == 2
MaxWorkFailures == 3
MaxStorageFaults == 1
MaxSends == 2
MaxClock == 3
MaxInitialDelay == 10
MaxRetryCount == 5
MaxIterations == 3
MaxKeepFailing == 8

Videos == 1..NumVideos
Workers == 1..NumWorkers
RecordIds == 1..MaxOutbox
EventIds == 1..NumEvents

(***************************************************************************)
(* Program constants.                                                      *)
(***************************************************************************)
TopicTranscoded == "video.transcoded"
TopicTranscribed == "video.transcribed"
TopicSummarized == "video.summarized"

Stages == {"transcription", "summary"}

\* The topic of the completion event a stage appends to the outbox.
CompletionTopic(stage) ==
    IF stage = "transcription" THEN TopicTranscribed ELSE TopicSummarized

VARIABLES
    \* ---- the entity store (committed rows) ----
    transcripts,   \* video -> "none" | "processing" | "ready"  (VideoTranscript.status)
    summaries,     \* video -> "none" | "empty" | "text"        (VideoSummary.summary_text)
    outbox,        \* sequence of OutboxEvent rows in created_at order; id = index
    videoStatus,   \* video -> Videos.status
    statusLog,     \* video -> sequence of VideoStatusLog.status in created_at order
    processed,     \* set of ProcessedMessage rows [id, topic]
    \* ---- sessions ----
    pending,       \* worker -> set of writes added to its session and not committed
    \* ---- SpecSave ----
    save,          \* worker -> position and locals of its _save_*_with_outbox call
    \* ---- SpecPub ----
    pubQueue,      \* publish tasks queued on the task executor: set of [id, retries]
    pubTask,       \* worker -> the publish task it runs, its position and locals
    inflight,      \* record id -> a message produce() took is not yet delivered
    bus,           \* record id -> the broker has accepted a message of the record
    sent,          \* record id -> times KafkaProducer.publish returned True (up to SendCap)
    faults,        \* send failures, storage errors and crashes so far
    \* ---- SpecMark ----
    mark,          \* caller -> position and locals of its mark_as_processed call
    \* ---- SpecLog, SpecTwice ----
    lg,            \* caller -> position and locals of its status transition
    \* ---- SpecPipe ----
    consumer,      \* the consumer handler: its position, locals and the deliveries so far
    taskQueue,     \* stage tasks queued on the task executor: retries -> how many
    task,          \* worker -> the stage task it runs, its position and locals
    workFailures,  \* failures of the external work (download, model, upload) so far
    storageFaults, \* storage errors met by the stage tasks so far: "update", "log"
    \* ---- single calls ----
    clock,         \* the time datetime.utcnow() and the server's now() give
    polled,        \* the last get_unpublished_events call: its limit and what it returned
    wire,          \* one outbox record on its way to a consumer: the message and the key
    backoff,       \* the retry delays computed for one task: inputs, calls and results
    kloop,         \* KafkaConsumer.consume: position, shutdown_event, what it has done
    sloop,         \* OutboxPublisherScheduler.run_forever: position, running, what it has done
    summ           \* the summary stage behind a transcription task: its position

dbVars == <<transcripts, summaries, outbox, videoStatus, statusLog, processed>>
saveVars == <<pending, save>>
pubVars == <<pubQueue, pubTask, inflight, bus, sent, faults>>
pipeVars == <<consumer, taskQueue, task, workFailures, storageFaults>>
otherVars == <<backoff, kloop, sloop, summ>>
callVars == <<clock, polled, wire, otherVars>>
\* What each specification leaves alone.
offSave == <<pubVars, mark, lg, pipeVars, callVars>>
offPub == <<transcripts, summaries, videoStatus, statusLog, processed, saveVars, mark, lg,
           pipeVars, callVars>>
offMark == <<transcripts, summaries, outbox, videoStatus, statusLog, saveVars, pubVars, lg,
            pipeVars, callVars>>
offLog == <<transcripts, summaries, outbox, processed, saveVars, pubVars, mark, pipeVars,
           callVars>>
offPipe == <<saveVars, pubVars, mark, lg, callVars>>

vars == <<transcripts, summaries, outbox, videoStatus, statusLog, processed,
          pending, save, pubQueue, pubTask, inflight, bus, sent, faults, mark, lg,
          consumer, taskQueue, task, workFailures, storageFaults, clock, polled, wire,
          otherVars>>

(***************************************************************************)
(* Entity store helpers.                                                   *)
(***************************************************************************)
OutboxIds == 1..Len(outbox)

\* published_at of a record that was never marked (NULL).
NullTime == 0

\* OutboxEvent row as add_to_outbox creates it: created_at is the server's
\* now(), published_at is NULL.
NewOutboxRow(topic, v) ==
    [topic |-> topic, vid |-> v, published |-> FALSE, attempts |-> 0,
     created_at |-> clock, published_at |-> NullTime]

\* A video's artifact of a stage is complete: transcript status 'ready',
\* or summary_text non-empty.
ArtifactComplete(stage, v) ==
    IF stage = "transcription" THEN transcripts[v] = "ready"
    ELSE summaries[v] = "text"

\* A row of the stage's artifact table exists for the video (find_one is not None).
ArtifactExists(stage, v) ==
    IF stage = "transcription" THEN transcripts[v] # "none"
    ELSE summaries[v] # "none"

\* The outbox holds a completion event of the stage for the video.
HasCompletionEvent(stage, v) ==
    \E i \in OutboxIds :
        outbox[i].topic = CompletionTopic(stage) /\ outbox[i].vid = v

\* VideoStatusLogService: the status of the most recent row, "" when there is none.
LatestStatus(v) ==
    IF Len(statusLog[v]) = 0 THEN "" ELSE statusLog[v][Len(statusLog[v])]

(***************************************************************************)
(* Sessions.  Every GenericRepository write commits at once (create: add,  *)
(* commit, refresh; update: setattr, commit, refresh), so a row is in the  *)
(* committed store as soon as the call returns.  pending[w] holds what a   *)
(* session added and could not commit; rollback() and close() discard it.  *)
(***************************************************************************)
SessionRollback(w) == pending' = [pending EXCEPT ![w] = {}]

\* A commit that raises: the row stays in the session, uncommitted.
CommitFails(w, tbl, v) ==
    pending' = [pending EXCEPT ![w] = @ \cup {[tbl |-> tbl, vid |-> v]}]

(***************************************************************************)
(* SpecSave: VideoTranscriptionService._save_transcript_with_outbox and    *)
(* VideoSummaryService._save_summary_with_outbox, one call per worker,     *)
(* with a storage error or a crash possible at every step.                 *)
(***************************************************************************)
SaveIdle ==
    [pc |-> "idle", stage |-> "transcription", vid |-> 1, existing |-> FALSE,
     latest |-> "", created |-> 0]

SaveQuiet ==
    /\ pending = [w \in Workers |-> {}]
    /\ save = [w \in Workers |-> SaveIdle]

PubIdle == [pc |-> "idle", id |-> 0, retries |-> 0, att |-> 0]

PubQuiet ==
    /\ pubQueue = {}
    /\ pubTask = [w \in Workers |-> PubIdle]
    /\ inflight = [i \in RecordIds |-> FALSE]
    /\ bus = [i \in RecordIds |-> FALSE]
    /\ sent = [i \in RecordIds |-> 0]
    /\ faults = 0

MarkIdle ==
    [pc |-> "idle", op |-> "mark_as_processed", id |-> 0, topic |-> "", skip |-> FALSE,
     err |-> "", raced |-> FALSE, result |-> [id |-> 0, topic |-> ""], ret |-> FALSE]

MarkQuiet == mark = [c \in Workers |-> MarkIdle]

NoCall == [vid |-> 0, status |-> "", before |-> "", ret |-> "", added |-> 0,
           failed |-> FALSE]

LogIdle == [pc |-> "idle", latest |-> "", calls |-> 0, cur |-> NoCall, prev |-> NoCall]

LogQuiet == lg = [c \in Workers |-> LogIdle]

\* The retry limit of the stage tasks (max_retries of both task configs).
TaskMaxRetries == 3

\* The handler waiting for a delivery of event id for video vid.  The
\* fields after pc are the locals of the delivery it handles or handled
\* last (arrivedComplete: the artifact was complete when the message came;
\* fault: the storage call of the handler that raised; raised: the handler
\* ended with an exception); dispatched and again are kept over all
\* deliveries.
ConsumerIdle(h) ==
    [handler |-> h, pc |-> "idle", id |-> 1, vid |-> 1, deliveries |-> 0,
     payload |-> [eventId |-> "1", id |-> "1", videoId |-> "int:1"],
     arrivedComplete |-> FALSE, sawComplete |-> FALSE, wasProcessed |-> FALSE,
     queued |-> FALSE, fault |-> "", raised |-> FALSE,
     dispatched |-> 0, again |-> FALSE]

\* A worker that runs no task.  ended, retries and countdown tell how the
\* task it ran last ended: "exists", "completed", "failed" (the error
\* in raised leaves the task, no retry) or "retry" (self.retry with that
\* countdown).
TaskIdle ==
    [pc |-> "idle", retries |-> 0, status |-> "", next |-> "", existing |-> FALSE,
     ended |-> "", countdown |-> 0, raised |-> ""]

PipeQuiet ==
    /\ consumer = ConsumerIdle("")
    /\ taskQueue = [r \in 0..TaskMaxRetries |-> 0]
    /\ task = [w \in Workers |-> TaskIdle]
    /\ workFailures = 0
    /\ storageFaults = <<>>

\* Payload values: strings as they are, the integer n as "int:n", and None
\* for a field that is absent (dict.get gives None).
None == "None"

WireIdle == [pc |-> "idle", rid |-> 0, stored |-> [eventId |-> None, id |-> None,
             videoId |-> None], message |-> [eventId |-> None, id |-> None,
             videoId |-> None], key |-> None, sends |-> 0, keys |-> {}]

NotPolled == [limit |-> 0, events |-> <<>>, done |-> FALSE]

\* No delay computed yet.
NoBackoff == [initial |-> 0, max |-> 0, calls |-> 0, delay |-> 0, prev |-> 0]

\* KafkaConsumer after __init__ and the call of consume(): subscribed, the
\* shutdown_event clear, about to test the while condition.
ConsumerLoopStart ==
    [pc |-> "check", shutdown |-> FALSE, closed |-> FALSE, why |-> "", handled |-> 0,
     errors |-> 0, begunAfter |-> 0, pollsAfter |-> 0, handledAfter |-> 0]

\* handle_video_transcribed has not been called for the video.
SummaryNotStarted == [pc |-> "idle", vid |-> 0, rid |-> 0]

\* OutboxPublisherScheduler after __init__: running = False, run_forever not
\* called yet.
SchedulerLoopStart ==
    [pc |-> "start", running |-> FALSE, stop |-> FALSE, cycles |-> 0, errors |-> 0,
     cyclesAfter |-> 0, sleepsAfter |-> 0]

OtherQuiet ==
    /\ backoff = NoBackoff
    /\ kloop = ConsumerLoopStart
    /\ sloop = SchedulerLoopStart
    /\ summ = SummaryNotStarted

CallQuiet ==
    /\ clock = 1
    /\ polled = NotPolled
    /\ wire = WireIdle
    /\ OtherQuiet

SaveWorking == {"find", "write", "status", "logread", "loginsert", "outbox"}

InitSave ==
    /\ transcripts \in [Videos -> {"none", "processing"}]
    /\ summaries \in [Videos -> {"none", "empty"}]
    /\ outbox = <<>>
    /\ videoStatus = [v \in Videos |-> "transcribing"]
    /\ statusLog = [v \in Videos |-> <<"transcribing">>]
    /\ processed = {}
    /\ SaveQuiet
    /\ PubQuiet
    /\ MarkQuiet
    /\ LogQuiet
    /\ PipeQuiet
    /\ CallQuiet

\* The stage service reaches its save step for video v.
SaveCall(w, stage, v) ==
    /\ save[w].pc = "idle"
    /\ save' = [save EXCEPT ![w] = [SaveIdle EXCEPT !.pc = "find",
                                        !.stage = stage, !.vid = v]]
    /\ UNCHANGED <<dbVars, pending, offSave>>

\* existing = repo.find_one({"video_id": video_id})
SaveFindExisting(w) ==
    /\ save[w].pc = "find"
    /\ save' = [save EXCEPT ![w].pc = "write",
                            ![w].existing = ArtifactExists(save[w].stage, save[w].vid)]
    /\ UNCHANGED <<dbVars, pending, offSave>>

\* The pc after the artifact row is written.
AfterWrite(stage) == IF stage = "transcription" THEN "outbox" ELSE "status"

\* repo.update(...) when a row was found, else repo.create(...); both commit.
\* create on a video_id that got a row meanwhile: IntegrityError, create rolls
\* the session back and raises ValueError.
SaveWriteArtifact(w) ==
    LET st == save[w].stage
        v == save[w].vid
    IN  /\ save[w].pc = "write"
        /\ IF ~save[w].existing /\ ArtifactExists(st, v)
           THEN /\ SessionRollback(w)
                /\ save' = [save EXCEPT ![w].pc = "except"]
                /\ UNCHANGED <<dbVars, offSave>>
           ELSE /\ IF st = "transcription"
                   THEN /\ transcripts' = [transcripts EXCEPT ![v] = "ready"]
                        /\ UNCHANGED summaries
                   ELSE /\ summaries' = [summaries EXCEPT ![v] = "text"]
                        /\ UNCHANGED transcripts
                /\ save' = [save EXCEPT ![w].pc = AfterWrite(st)]
                /\ UNCHANGED <<outbox, videoStatus, statusLog, processed, pending, offSave>>

\* _save_summary_with_outbox only: videos_repo.update({"status": "indexing"}).
SaveUpdateIndexing(w) ==
    /\ save[w].pc = "status"
    /\ videoStatus' = [videoStatus EXCEPT ![save[w].vid] = "indexing"]
    /\ save' = [save EXCEPT ![w].pc = "logread"]
    /\ UNCHANGED <<transcripts, summaries, outbox, statusLog, processed, pending, offSave>>

\* log_status_change: read the latest row; return None when it has the status.
SaveLogRead(w) ==
    /\ save[w].pc = "logread"
    /\ save' = [save EXCEPT ![w].latest = LatestStatus(save[w].vid),
                            ![w].pc = IF LatestStatus(save[w].vid) = "indexing"
                                      THEN "outbox" ELSE "loginsert"]
    /\ UNCHANGED <<dbVars, pending, offSave>>

\* log_status_change: insert the row.
SaveLogInsert(w) ==
    /\ save[w].pc = "loginsert"
    /\ statusLog' = [statusLog EXCEPT ![save[w].vid] = Append(@, "indexing")]
    /\ save' = [save EXCEPT ![w].pc = "outbox"]
    /\ UNCHANGED <<transcripts, summaries, outbox, videoStatus, processed, pending, offSave>>

\* log_status_change catches every exception and returns None.
SaveLogFails(w) ==
    /\ save[w].pc \in {"logread", "loginsert"}
    /\ save' = [save EXCEPT ![w].pc = "outbox"]
    /\ UNCHANGED <<dbVars, pending, offSave>>

\* outbox_service.add_to_outbox(...): repo.create, which commits.
SaveAddToOutbox(w) ==
    /\ save[w].pc = "outbox"
    /\ outbox' = Append(outbox,
                        NewOutboxRow(CompletionTopic(save[w].stage), save[w].vid))
    /\ save' = [save EXCEPT ![w].pc = "returned", ![w].created = Len(outbox) + 1]
    /\ UNCHANGED <<transcripts, summaries, videoStatus, statusLog, processed, pending, offSave>>

\* A storage error in a repository call of the try block: nothing is committed.
SaveStorageError(w) ==
    /\ save[w].pc \in {"find", "write", "status", "outbox"}
    /\ IF save[w].pc \in {"write", "outbox"}
       THEN CommitFails(w, save[w].pc, save[w].vid)
       ELSE UNCHANGED pending
    /\ save' = [save EXCEPT ![w].pc = "except"]
    /\ UNCHANGED <<dbVars, offSave>>

\* except Exception: self.db_session.rollback(); raise
SaveExcept(w) ==
    /\ save[w].pc = "except"
    /\ SessionRollback(w)
    /\ save' = [save EXCEPT ![w].pc = "raised"]
    /\ UNCHANGED <<dbVars, offSave>>

\* The worker process dies: its session's uncommitted rows are lost.
SaveCrash(w) ==
    /\ save[w].pc \in SaveWorking \cup {"except"}
    /\ SessionRollback(w)
    /\ save' = [save EXCEPT ![w].pc = "crashed"]
    /\ UNCHANGED <<dbVars, offSave>>

\* The caller ends its session without a commit of its own (the task's
\* finally: self._db.close()), which rolls the open transaction back.
SessionClose(w) ==
    /\ save[w].pc \in {"returned", "raised"}
    /\ SessionRollback(w)
    /\ save' = [save EXCEPT ![w].pc = "closed"]
    /\ UNCHANGED <<dbVars, offSave>>

NextSave ==
    \/ \E w \in Workers, stage \in Stages, v \in Videos : SaveCall(w, stage, v)
    \/ \E w \in Workers : SaveFindExisting(w)
    \/ \E w \in Workers : SaveWriteArtifact(w)
    \/ \E w \in Workers : SaveUpdateIndexing(w)
    \/ \E w \in Workers : SaveLogRead(w)
    \/ \E w \in Workers : SaveLogInsert(w)
    \/ \E w \in Workers : SaveLogFails(w)
    \/ \E w \in Workers : SaveAddToOutbox(w)
    \/ \E w \in Workers : SaveStorageError(w)
    \/ \E w \in Workers : SaveExcept(w)
    \/ \E w \in Workers : SaveCrash(w)
    \/ \E w \in Workers : SessionClose(w)

SpecSave == InitSave /\ [][NextSave]_vars

\* C1: in every reachable state a video has a complete artifact (transcript
\* 'ready', summary_text non-empty) if and only if the outbox holds the
\* stage's completion event for that video.
C1_ArtifactIffEvent ==
    \A v \in Videos, stage \in Stages :
        ArtifactComplete(stage, v) <=> HasCompletionEvent(stage, v)

\* C2: once the transaction in which add_to_outbox was called has been rolled
\* back, no outbox record created by that call exists.
C2_RolledBackRecordAbsent ==
    \A w \in Workers :
        (save[w].pc = "closed" /\ save[w].created # 0)
            => save[w].created \notin OutboxIds

(***************************************************************************)
(* SpecPub: OutboxPublisherScheduler.poll_and_publish, the Celery task     *)
(* publish_outbox_event_task and KafkaProducer.  A business commit adds a  *)
(* record; every poll cycle queues one publish task per unpublished        *)
(* record; Celery workers run the tasks; the producer delivers what        *)
(* produce() took, asynchronously.                                         *)
(***************************************************************************)
PollLimit == 100
PublishMaxRetries == 5

InitPub ==
    /\ transcripts = [v \in Videos |-> "none"]
    /\ summaries = [v \in Videos |-> "none"]
    /\ outbox = <<>>
    /\ videoStatus = [v \in Videos |-> "pending"]
    /\ statusLog = [v \in Videos |-> <<>>]
    /\ processed = {}
    /\ SaveQuiet
    /\ PubQuiet
    /\ MarkQuiet
    /\ LogQuiet
    /\ PipeQuiet
    /\ CallQuiet

\* The first n elements of a sequence.
Take(seq, n) == SubSeq(seq, 1, IF Len(seq) < n THEN Len(seq) ELSE n)

\* The ids of a sequence of ids.
Range(seq) == {seq[k] : k \in 1..Len(seq)}

\* ORDER BY created_at ASC over the outbox: record j comes before record i.
\* Records with equal created_at are kept in the order of their ids.
CreatedBefore(j, i) ==
    \/ outbox[j].created_at < outbox[i].created_at
    \/ outbox[j].created_at = outbox[i].created_at /\ j < i

\* find_all's order_by = "created_at ASC": the ids of all records, oldest first.
OrderByCreatedAt ==
    [k \in OutboxIds |->
        CHOOSE i \in OutboxIds :
            Cardinality({j \in OutboxIds : CreatedBefore(j, i)}) = k - 1]

\* find_all's `if limit: query = query.limit(limit)`: a limit of 0 (or None)
\* puts no LIMIT on the query.
ApplyLimit(seq, limit) == IF limit # 0 THEN Take(seq, limit) ELSE seq

GetUnpublishedEventsCapped(limit) ==
    ApplyLimit(SelectSeq(OrderByCreatedAt,
                         LAMBDA i : ~outbox[i].published
                                    /\ outbox[i].attempts <= PublishMaxRetries), limit)

\* OutboxService.get_unpublished_events(limit): find_all(where published =
\* False, limit = limit, order_by = "created_at ASC"), as the ids of the records.
GetUnpublishedEvents(limit) ==
    ApplyLimit(SelectSeq(OrderByCreatedAt, LAMBDA i : ~outbox[i].published), limit)

\* OutboxService.add_to_outbox at the end of a stage's business write.
AddToOutbox(topic, v) ==
    /\ Len(outbox) < MaxOutbox
    /\ outbox' = Append(outbox, NewOutboxRow(topic, v))
    /\ UNCHANGED <<pubVars, offPub>>

\* One poll cycle: a publish task is queued for every unpublished record read.
PollAndPublish ==
    LET events == GetUnpublishedEvents(PollLimit)
    IN  /\ events # <<>>
        /\ pubQueue' = pubQueue \cup {[id |-> i, retries |-> 0] : i \in Range(events)}
        /\ UNCHANGED <<outbox, pubTask, inflight, bus, sent, faults, offPub>>

\* A Celery worker takes a queued publish task.
PublishTaskStart(w, t) ==
    /\ pubTask[w].pc = "idle"
    /\ t \in pubQueue
    /\ pubQueue' = pubQueue \ {t}
    /\ pubTask' = [pubTask EXCEPT ![w] = [pc |-> "find", id |-> t.id,
                                          retries |-> t.retries, att |-> 0]]
    /\ UNCHANGED <<outbox, inflight, bus, sent, faults, offPub>>

\* event = outbox_repo.find_one({"id": event_id}); a missing or an already
\* published event ends the task.
PublishTaskFind(w) ==
    /\ pubTask[w].pc = "find"
    /\ pubTask' = [pubTask EXCEPT ![w] =
          IF pubTask[w].id \notin OutboxIds \/ outbox[pubTask[w].id].published
          THEN PubIdle ELSE [@ EXCEPT !.pc = "publish"]]
    /\ UNCHANGED <<outbox, pubQueue, inflight, bus, sent, faults, offPub>>

AfterPublishAlwaysMark(success) == "mark"

\* The task's branch on what KafkaProducer.publish returned.
AfterPublish(success) == IF success THEN "mark" ELSE "incr"

\* KafkaProducer.publish: produce() takes the message into the producer's
\* queue and publish returns True; nothing waits for the delivery report.
PublishTaskSendOk(w) ==
    /\ pubTask[w].pc = "publish"
    /\ inflight' = [inflight EXCEPT ![pubTask[w].id] = TRUE]
    /\ sent' = [sent EXCEPT ![pubTask[w].id] = IF @ < SendCap THEN @ + 1 ELSE @]
    /\ pubTask' = [pubTask EXCEPT ![w].pc = AfterPublish(TRUE)]
    /\ UNCHANGED <<outbox, pubQueue, bus, faults, offPub>>

\* KafkaProducer.publish: produce() raises, publish returns False; n bounds
\* the failures of a run.
PublishTaskSendFailsWithin(w, n) ==
    /\ pubTask[w].pc = "publish"
    /\ faults < n
    /\ faults' = faults + 1
    /\ pubTask' = [pubTask EXCEPT ![w].pc = AfterPublish(FALSE)]
    /\ UNCHANGED <<outbox, pubQueue, inflight, bus, sent, offPub>>

PublishTaskSendFails(w) == PublishTaskSendFailsWithin(w, MaxFaults)

MarkAsPublishedAll(i) ==
    outbox' = [k \in OutboxIds |-> [outbox[k] EXCEPT !.published = TRUE,
                                                      !.published_at = clock]]

\* OutboxService.mark_as_published: when the record exists, published = True
\* and published_at = datetime.utcnow(), whatever they were.
MarkAsPublished(i) ==
    IF i \in OutboxIds
    THEN outbox' = [outbox EXCEPT ![i].published = TRUE, ![i].published_at = clock]
    ELSE UNCHANGED outbox

PublishTaskMark(w) ==
    /\ pubTask[w].pc = "mark"
    /\ MarkAsPublished(pubTask[w].id)
    /\ pubTask' = [pubTask EXCEPT ![w] = PubIdle]
    /\ UNCHANGED <<pubQueue, inflight, bus, sent, faults, offPub>>

\* OutboxService.increment_attempts: event = find_one(...), read attempts.
PublishTaskIncrRead(w) ==
    /\ pubTask[w].pc = "incr"
    /\ pubTask' = IF pubTask[w].id \in OutboxIds
                  THEN [pubTask EXCEPT ![w].att = outbox[pubTask[w].id].attempts,
                                       ![w].pc = "incrwrite"]
                  ELSE [pubTask EXCEPT ![w].pc = "retry"]
    /\ UNCHANGED <<outbox, pubQueue, inflight, bus, sent, faults, offPub>>

IncrementedRowStale(row, att) ==
    [row EXCEPT !.attempts = att + 1, !.published = FALSE]

IncrementedRowRestamped(row, att) ==
    [row EXCEPT !.attempts = att + 1, !.published_at = NullTime]

\* GenericRepository.update(where, {"attempts": new_attempts}): setattr on
\* the keys of data only, so the write carries the attempts column alone.
IncrementedRow(row, att) == [row EXCEPT !.attempts = att + 1]

\* OutboxService.increment_attempts: update attempts to the value read + 1;
\* then the task raises Exception("Failed to publish to Kafka").
PublishTaskIncrWrite(w) ==
    /\ pubTask[w].pc = "incrwrite"
    /\ outbox' = [outbox EXCEPT ![pubTask[w].id] = IncrementedRow(@, pubTask[w].att)]
    /\ pubTask' = [pubTask EXCEPT ![w].pc = "retry"]
    /\ UNCHANGED <<pubQueue, inflight, bus, sent, faults, offPub>>

\* A storage error in one of the task's repository calls.
PublishTaskStorageError(w) ==
    /\ pubTask[w].pc \in {"find", "mark", "incr", "incrwrite"}
    /\ faults < MaxFaults
    /\ faults' = faults + 1
    /\ pubTask' = [pubTask EXCEPT ![w].pc = "retry"]
    /\ UNCHANGED <<outbox, pubQueue, inflight, bus, sent, offPub>>

\* except Exception: raise self.retry(exc=e): the task is queued again until
\* max_retries is used up, then the error is raised and the task ends.
PublishTaskRetry(w) ==
    /\ pubTask[w].pc = "retry"
    /\ pubQueue' = IF pubTask[w].retries < PublishMaxRetries
                   THEN pubQueue \cup {[id |-> pubTask[w].id,
                                        retries |-> pubTask[w].retries + 1]}
                   ELSE pubQueue
    /\ pubTask' = [pubTask EXCEPT ![w] = PubIdle]
    /\ UNCHANGED <<outbox, inflight, bus, sent, faults, offPub>>

\* The worker dies in a task: task_acks_late and task_reject_on_worker_lost
\* put the task back on the queue.
PublishTaskCrash(w) ==
    /\ pubTask[w].pc # "idle"
    /\ faults < MaxFaults
    /\ faults' = faults + 1
    /\ pubQueue' = pubQueue \cup {[id |-> pubTask[w].id, retries |-> pubTask[w].retries]}
    /\ pubTask' = [pubTask EXCEPT ![w] = PubIdle]
    /\ UNCHANGED <<outbox, inflight, bus, sent, offPub>>

\* The broker acknowledges a message: _delivery_callback(err = None).
Deliver(i) ==
    /\ inflight[i]
    /\ inflight' = [inflight EXCEPT ![i] = FALSE]
    /\ bus' = [bus EXCEPT ![i] = TRUE]
    /\ UNCHANGED <<outbox, pubQueue, pubTask, sent, faults, offPub>>

\* Delivery fails after the producer's retries: _delivery_callback(err) logs
\* the error; the message is gone.
DeliveryFails(i) ==
    /\ inflight[i]
    /\ inflight' = [inflight EXCEPT ![i] = FALSE]
    /\ UNCHANGED <<outbox, pubQueue, pubTask, bus, sent, faults, offPub>>

PublishTaskStep(w) ==
    \/ \E t \in pubQueue : PublishTaskStart(w, t)
    \/ PublishTaskFind(w)
    \/ PublishTaskSendOk(w)
    \/ PublishTaskSendFails(w)
    \/ PublishTaskMark(w)
    \/ PublishTaskIncrRead(w)
    \/ PublishTaskIncrWrite(w)
    \/ PublishTaskRetry(w)

NextPub ==
    \/ \E v \in {1} : AddToOutbox(TopicTranscribed, v)
    \/ PollAndPublish
    \/ \E w \in Workers : PublishTaskStep(w)
    \/ \E w \in Workers : PublishTaskStorageError(w)
    \/ \E w \in Workers : PublishTaskCrash(w)
    \/ \E i \in RecordIds : Deliver(i)
    \/ \E i \in RecordIds : DeliveryFails(i)

SpecPub == InitPub /\ [][NextPub]_vars

\* The scheduler loop keeps polling and the Celery workers keep running the
\* tasks they hold or find queued; send failures, storage errors and crashes
\* are finitely many (the bus is eventually reachable).
SpecPubFair ==
    /\ SpecPub
    /\ WF_vars(PollAndPublish)
    /\ \A w \in Workers : WF_vars(PublishTaskStep(w))

\* C3: every committed outbox record is eventually handed to the bus at
\* least once (KafkaProducer.publish takes its message), whatever crashes,
\* storage errors and failed sends come first.
C3_EventuallySent ==
    \A i \in RecordIds : (i \in OutboxIds) ~> (sent[i] > 0)

C3_Witness ==
    \E i \in OutboxIds : sent[i] > 0 /\ outbox[i].attempts > 0 /\ faults = MaxFaults

\* C4: a record is published = true only if the bus has accepted its message.
C4_PublishedOnlyIfDelivered ==
    \A i \in OutboxIds : outbox[i].published => bus[i]

\* A record is published, its message is no longer in flight, and the bus
\* never got it.
C4_LostMessage ==
    \E i \in OutboxIds : outbox[i].published /\ ~inflight[i] /\ ~bus[i]

(***************************************************************************)
(* SpecMark: ProcessedMessageService.mark_as_processed called by several   *)
(* consumers at once, each step of a call (the existence check, the insert *)
(* and the exception handler) taken separately.                            *)
(***************************************************************************)
ConsumerTopics == {TopicTranscoded, TopicTranscribed}

InitMark ==
    /\ transcripts = [v \in Videos |-> "none"]
    /\ summaries = [v \in Videos |-> "none"]
    /\ outbox = <<>>
    /\ videoStatus = [v \in Videos |-> "pending"]
    /\ statusLog = [v \in Videos |-> <<>>]
    /\ processed = {}
    /\ SaveQuiet
    /\ PubQuiet
    /\ MarkQuiet
    /\ LogQuiet
    /\ PipeQuiet
    /\ CallQuiet

\* The processed-message rows of an event id; id is the table's key.
ProcessedRows(x) == {r \in processed : r.id = x}

\* processed_repo.find_one({"id": str(event_id)})
FindProcessed(x) ==
    IF ProcessedRows(x) = {} THEN [id |-> 0, topic |-> ""]
    ELSE CHOOSE r \in ProcessedRows(x) : TRUE

\* The insert is refused when a row with the id exists (unique id).
InsertRefused(x) == ProcessedRows(x) # {}

IsDuplicateErrorNever(err) == FALSE

\* The except clause takes the error for the insert race when its text
\* mentions "unique constraint" or "duplicate key"; the ValueError that
\* GenericRepository.create raises from an IntegrityError carries that text.
IsDuplicateError(err) == err = "duplicate key value violates unique constraint"

MarkCall(c, x, t, skip) ==
    /\ mark[c].pc = "idle"
    /\ mark' = [mark EXCEPT ![c] = [MarkIdle EXCEPT !.id = x, !.topic = t,
                   !.skip = skip, !.pc = IF skip THEN "insert" ELSE "check"]]
    /\ UNCHANGED <<processed, offMark>>

\* if not skip_check: existing = find_one(...); if existing: return existing
MarkCheck(c) ==
    /\ mark[c].pc = "check"
    /\ mark' = [mark EXCEPT ![c] =
          IF ProcessedRows(mark[c].id) # {}
          THEN [@ EXCEPT !.pc = "returned", !.result = FindProcessed(mark[c].id)]
          ELSE [@ EXCEPT !.pc = "insert"]]
    /\ UNCHANGED <<processed, offMark>>

\* message = self.processed_repo.create({"id": ..., "topic": ...})
MarkInsert(c) ==
    /\ mark[c].pc = "insert"
    /\ IF InsertRefused(mark[c].id)
       THEN /\ mark' = [mark EXCEPT ![c].pc = "except",
                   ![c].err = "duplicate key value violates unique constraint"]
            /\ UNCHANGED processed
       ELSE /\ processed' = processed \cup {[id |-> mark[c].id, topic |-> mark[c].topic]}
            /\ mark' = [mark EXCEPT ![c].pc = "returned",
                   ![c].result = [id |-> mark[c].id, topic |-> mark[c].topic]]
    /\ UNCHANGED offMark

\* A repository call raises for another reason (the store is unavailable).
MarkStorageError(c) ==
    /\ mark[c].pc \in {"check", "insert"}
    /\ mark' = [mark EXCEPT ![c].pc = "except", ![c].err = "connection refused"]
    /\ UNCHANGED <<processed, offMark>>

\* except Exception as e: the insert race returns the existing record,
\* anything else is logged and raised.
MarkExcept(c) ==
    /\ mark[c].pc = "except"
    /\ mark' = [mark EXCEPT ![c] =
          IF IsDuplicateError(mark[c].err)
          THEN [@ EXCEPT !.pc = "returned", !.raced = TRUE,
                         !.result = FindProcessed(mark[c].id)]
          ELSE [@ EXCEPT !.pc = "raised"]]
    /\ UNCHANGED <<processed, offMark>>

NextMark ==
    \/ \E c \in Workers, x \in EventIds, t \in ConsumerTopics, skip \in BOOLEAN :
          MarkCall(c, x, t, skip)
    \/ \E c \in Workers : MarkCheck(c)
    \/ \E c \in Workers : MarkInsert(c)
    \/ \E c \in Workers : MarkStorageError(c)
    \/ \E c \in Workers : MarkExcept(c)

SpecMark == InitMark /\ [][NextMark]_vars

\* C5: for every event id, concurrent mark_as_processed calls leave at most
\* one processed-message row; a call that returns hands back the one row of
\* its event id, and no call raises because of the race: the only error that
\* leaves a call is a storage error.
C5_MarkOnce ==
    /\ \A x \in EventIds : Cardinality(ProcessedRows(x)) <= 1
    /\ \A c \in Workers :
          /\ mark[c].pc = "returned" =>
                /\ mark[c].result \in processed
                /\ ProcessedRows(mark[c].id) = {mark[c].result}
          /\ mark[c].pc = "raised" => mark[c].err = "connection refused"

\* Two calls for one event id both reached the insert; one of them returned
\* through the exception handler.
C5_Witness ==
    \E c, d \in Workers :
        /\ c # d
        /\ mark[c].pc = "returned" /\ mark[d].pc = "returned"
        /\ mark[c].id = mark[d].id
        /\ mark[c].raced /\ ~mark[d].raced /\ ~mark[c].skip

(***************************************************************************)
(* SpecLog: a status transition as the stage code performs it, the         *)
(* Videos.status update followed by log_status_change, by several workers  *)
(* at once.  SpecTwice: the same steps, one worker only, so that its       *)
(* transitions follow one another with nothing in between.                 *)
(***************************************************************************)
\* The statuses python-backend writes.
WrittenStatuses == {"transcribing", "summarizing", "indexing", "failed"}

InitLog ==
    /\ transcripts = [v \in Videos |-> "none"]
    /\ summaries = [v \in Videos |-> "none"]
    /\ outbox = <<>>
    /\ videoStatus = [v \in Videos |-> "pending"]
    /\ statusLog = [v \in Videos |-> <<>>]
    /\ processed = {}
    /\ SaveQuiet
    /\ PubQuiet
    /\ MarkQuiet
    /\ LogQuiet
    /\ PipeQuiet
    /\ CallQuiet

LogSkipsNever(latest, status) == FALSE

\* log_status_change: if latest_log and latest_log.status == status: return None
LogSkips(latest, status) == latest # "" /\ latest = status

\* A worker starts the transition of video v to status s.
LogCall(c, v, s) ==
    /\ lg[c].pc = "idle"
    /\ lg' = [lg EXCEPT ![c] = [pc |-> "update", latest |-> "", calls |-> 1,
                 cur |-> [NoCall EXCEPT !.vid = v, !.status = s,
                                        !.before = LatestStatus(v)],
                 prev |-> NoCall]]
    /\ UNCHANGED <<videoStatus, statusLog, offLog>>

\* A worker that has finished a transition starts its next one; the one it
\* finished is kept in prev.
LogCallAgain(c, v, s) ==
    /\ lg[c].pc = "returned"
    /\ lg[c].calls < MaxCalls
    /\ lg' = [lg EXCEPT ![c] = [pc |-> "update", latest |-> "",
                 calls |-> lg[c].calls + 1,
                 cur |-> [NoCall EXCEPT !.vid = v, !.status = s,
                                        !.before = LatestStatus(v)],
                 prev |-> lg[c].cur]]
    /\ UNCHANGED <<videoStatus, statusLog, offLog>>

\* videos_repo.update({"id": video_id}, {"status": status})
LogUpdateStatus(c) ==
    /\ lg[c].pc = "update"
    /\ videoStatus' = [videoStatus EXCEPT ![lg[c].cur.vid] = lg[c].cur.status]
    /\ lg' = [lg EXCEPT ![c].pc = "read"]
    /\ UNCHANGED <<statusLog, offLog>>

\* log_status_change: find_all(where video_id, limit=1, created_at DESC) and
\* the comparison with the new status.
LogRead(c) ==
    /\ lg[c].pc = "read"
    /\ lg' = [lg EXCEPT ![c] =
          IF LogSkips(LatestStatus(lg[c].cur.vid), lg[c].cur.status)
          THEN [@ EXCEPT !.pc = "returned", !.cur.ret = "None",
                         !.latest = LatestStatus(lg[c].cur.vid)]
          ELSE [@ EXCEPT !.pc = "insert", !.latest = LatestStatus(lg[c].cur.vid)]]
    /\ UNCHANGED <<videoStatus, statusLog, offLog>>

\* log_status_change: status_log_repo.create(...), return log_entry
LogInsert(c) ==
    /\ lg[c].pc = "insert"
    /\ statusLog' = [statusLog EXCEPT ![lg[c].cur.vid] = Append(@, lg[c].cur.status)]
    /\ lg' = [lg EXCEPT ![c].pc = "returned", ![c].cur.ret = "row", ![c].cur.added = 1]
    /\ UNCHANGED <<videoStatus, offLog>>

\* log_status_change: except Exception: warning, return None
LogFails(c) ==
    /\ lg[c].pc \in {"read", "insert"}
    /\ lg' = [lg EXCEPT ![c].pc = "returned", ![c].cur.ret = "None",
                        ![c].cur.failed = TRUE]
    /\ UNCHANGED <<videoStatus, statusLog, offLog>>

LogStep(c) ==
    \/ \E v \in Videos, s \in WrittenStatuses : LogCall(c, v, s)
    \/ LogUpdateStatus(c)
    \/ LogRead(c)
    \/ LogInsert(c)
    \/ LogFails(c)

NextLog == \E c \in Workers : LogStep(c)

SpecLog == InitLog /\ [][NextLog]_vars

NextTwice ==
    \/ LogStep(1)
    \/ \E v \in Videos, s \in WrittenStatuses : LogCallAgain(1, v, s)

SpecTwice == InitLog /\ [][NextTwice]_vars

\* C6: no two consecutive status-log rows of a video carry the same status.
C6_NoConsecutiveRepeat ==
    \A v \in Videos : \A k \in 1..(Len(statusLog[v]) - 1) :
        statusLog[v][k] # statusLog[v][k + 1]

\* Two workers logged the same status for a video, each after reading the
\* same latest row.
C6_RaceWitness ==
    \E c, d \in Workers :
        /\ c # d
        /\ lg[c].pc = "returned" /\ lg[d].pc = "returned"
        /\ lg[c].cur.vid = lg[d].cur.vid /\ lg[c].cur.status = lg[d].cur.status
        /\ lg[c].cur.ret = "row" /\ lg[d].cur.ret = "row"
        /\ lg[c].latest = lg[d].latest

\* A worker has finished the same transition (video, status) twice in a row,
\* neither log_status_change call failed, and the video's latest row did not
\* carry the status before the first of the two.
TwiceInARow(c) ==
    /\ lg[c].pc = "returned"
    /\ lg[c].prev.vid # 0
    /\ lg[c].prev.vid = lg[c].cur.vid
    /\ lg[c].prev.status = lg[c].cur.status
    /\ ~lg[c].prev.failed /\ ~lg[c].cur.failed
    /\ lg[c].prev.before # lg[c].cur.status

HandleVideoTranscoded == "handle_video_transcoded"
HandleVideoTranscribed == "handle_video_transcribed"
HandleWithIdempotency == "handle_kafka_event_with_idempotency"

Handlers == {HandleVideoTranscoded, HandleVideoTranscribed, HandleWithIdempotency}

\* The stage a handler dispatches.  handle_kafka_event_with_idempotency takes
\* topic and task as arguments; it is driven with those of transcription.
HandlerStage(h) ==
    IF h = HandleVideoTranscribed THEN "summary" ELSE "transcription"

\* TOPIC_NAME of the handler.
HandlerTopic(h) ==
    IF h = HandleVideoTranscribed THEN TopicTranscribed ELSE TopicTranscoded

PipeStage == HandlerStage(consumer.handler)

StageHandlers == {HandleVideoTranscoded, HandleVideoTranscribed}

ChecksArtifactNever(h) == FALSE

\* The two stage handlers look at the artifact first; the common handler
\* does not.
ChecksArtifact(h) == h \in StageHandlers

SkipsWhenProcessedNever(h) == FALSE

SkipsWhenProcessedAlways(h) == TRUE

\* What a handler does when is_processed answers True: the common handler
\* returns ("Skipping duplicate message"), the stage handlers log a warning
\* ("Allowing reprocessing to fix stuck state") and go on.
SkipsWhenProcessed(h) == h = HandleWithIdempotency

\* processed_service.is_processed(event_id, topic)
IsProcessed(x) == ProcessedRows(x) # {}

\* Stage tasks dispatched and not finished: queued or run by a worker.
QueuedTasks ==
    LET upTo[r \in 0..(TaskMaxRetries + 1)] ==
            IF r = 0 THEN 0 ELSE upTo[r - 1] + taskQueue[r - 1]
    IN upTo[TaskMaxRetries + 1]

RunningTasks == Cardinality({w \in Workers : task[w].pc # "idle"})

TasksOutstanding == QueuedTasks + RunningTasks

\* Before transcription the video is as the transcoder left it; before
\* summarization it is as transcription leaves it.
InitPipe ==
    /\ \E h \in Handlers :
          /\ consumer = ConsumerIdle(h)
          /\ transcripts = [v \in Videos |->
                IF HandlerStage(h) = "summary" THEN "ready" ELSE "none"]
          /\ videoStatus = [v \in Videos |->
                IF HandlerStage(h) = "summary" THEN "summarizing" ELSE "pending"]
          /\ statusLog = [v \in Videos |->
                IF HandlerStage(h) = "summary"
                THEN <<"transcribing", "summarizing">> ELSE <<>>]
    /\ summaries = [v \in Videos |-> "none"]
    /\ outbox = <<>>
    /\ processed = {}
    /\ taskQueue = [r \in 0..TaskMaxRetries |-> 0]
    /\ task = [w \in Workers |-> TaskIdle]
    /\ workFailures = 0
    /\ storageFaults = <<>>
    /\ SaveQuiet
    /\ PubQuiet
    /\ MarkQuiet
    /\ LogQuiet
    /\ CallQuiet

\* The consumer receives the event (again) and calls the handler; the
\* payload carries id and videoId, so validate_kafka_payload passes.
HandleDelivery ==
    /\ consumer.pc = "idle"
    /\ consumer.deliveries < MaxDeliveries
    /\ consumer' = [consumer EXCEPT
          !.pc = IF ChecksArtifact(consumer.handler) THEN "artifact" ELSE "isprocessed",
          !.deliveries = @ + 1,
          !.arrivedComplete = ArtifactComplete(PipeStage, consumer.vid),
          !.sawComplete = FALSE, !.wasProcessed = FALSE, !.queued = FALSE,
          !.fault = "", !.raised = FALSE]
    /\ UNCHANGED <<dbVars, taskQueue, task, workFailures, storageFaults, offPipe>>

\* existing = repo.find_one({"video_id": video_id}); complete -> skip
HandleCheckArtifact ==
    /\ consumer.pc = "artifact"
    /\ consumer' = [consumer EXCEPT
          !.pc = IF ArtifactComplete(PipeStage, consumer.vid) THEN "skipmark"
                 ELSE "isprocessed",
          !.sawComplete = ArtifactComplete(PipeStage, consumer.vid)]
    /\ UNCHANGED <<dbVars, taskQueue, task, workFailures, storageFaults, offPipe>>

\* The artifact is complete: mark the event if it is not marked, and return.
HandleSkipMark ==
    /\ consumer.pc = "skipmark"
    /\ processed' = IF IsProcessed(consumer.id) THEN processed
                    ELSE processed \cup {[id |-> consumer.id,
                                          topic |-> HandlerTopic(consumer.handler)]}
    /\ consumer' = [consumer EXCEPT !.pc = "idle",
                                    !.wasProcessed = IsProcessed(consumer.id)]
    /\ UNCHANGED <<transcripts, summaries, outbox, videoStatus, statusLog,
                   taskQueue, task, workFailures, storageFaults, offPipe>>

\* was_processed = is_processed(event_id, TOPIC_NAME)
HandleIsProcessed ==
    /\ consumer.pc = "isprocessed"
    /\ consumer' = [consumer EXCEPT
          !.wasProcessed = IsProcessed(consumer.id),
          !.pc = IF IsProcessed(consumer.id) /\ SkipsWhenProcessed(consumer.handler)
                 THEN "idle" ELSE "dispatch"]
    /\ UNCHANGED <<dbVars, taskQueue, task, workFailures, storageFaults, offPipe>>

\* task.delay(payload): a new task, retries 0, on the executor's queue.
HandleDispatch ==
    /\ consumer.pc = "dispatch"
    /\ taskQueue' = [taskQueue EXCEPT ![0] = @ + 1]
    /\ consumer' = [consumer EXCEPT
          !.pc = "mark", !.queued = TRUE, !.dispatched = @ + 1,
          !.again = @ \/ (IsProcessed(consumer.id) /\ TasksOutstanding > 0)]
    /\ UNCHANGED <<dbVars, task, workFailures, storageFaults, offPipe>>

\* mark_as_processed(event_id, TOPIC_NAME, skip_check=True), best effort:
\* the insert of an id that has a row is refused and the existing row stands.
HandleMark ==
    /\ consumer.pc = "mark"
    /\ processed' = IF InsertRefused(consumer.id) THEN processed
                    ELSE processed \cup {[id |-> consumer.id,
                                          topic |-> HandlerTopic(consumer.handler)]}
    /\ consumer' = [consumer EXCEPT !.pc = "idle"]
    /\ UNCHANGED <<transcripts, summaries, outbox, videoStatus, statusLog,
                   taskQueue, task, workFailures, storageFaults, offPipe>>

\* db_session_context, on leaving the with block: db_session.commit().  A
\* session whose own commit raised and that was not rolled back since
\* (GenericRepository.create rolls back on IntegrityError only) refuses the
\* commit; the context manager rolls back and raises.
ExitCommitRaises(sessionFailed) == sessionFailed

\* mark_as_processed raises (the store is unavailable): both call sites
\* catch the error and the handler goes on to the end of its with block.
HandleMarkFails ==
    /\ consumer.pc \in {"skipmark", "mark"}
    /\ consumer' = [consumer EXCEPT !.pc = "idle", !.fault = "mark",
                                    !.raised = ExitCommitRaises(TRUE)]
    /\ UNCHANGED <<dbVars, taskQueue, task, workFailures, storageFaults, offPipe>>

HandlerStep ==
    \/ HandleDelivery
    \/ HandleCheckArtifact
    \/ HandleSkipMark
    \/ HandleIsProcessed
    \/ HandleDispatch
    \/ HandleMark
    \/ HandleMarkFails

(***************************************************************************)
(* The stage tasks: transcribe_video_task with                             *)
(* VideoTranscriptionService.transcribe_video, and summarize_video_task    *)
(* with VideoSummaryService.process_summary.                               *)
(***************************************************************************)
\* The ways a task ends.
TaskEnds == {"exists", "completed", "failed", "retry"}

\* e of the task's "except Exception as e", and status_error of the except
\* clause around the update to 'failed'.
OriginalError == "processing error"
StatusError == "status update error"

TerminalRaisesStatusError(e, statusError) == statusError

\* except Exception as status_error: ...; raise e
TerminalRaises(e, statusError) == e

\* The worker after its task ended.
Ended(w, how, delay) ==
    [TaskIdle EXCEPT !.ended = how, !.retries = task[w].retries, !.countdown = delay,
                     !.raised = IF how = "failed" THEN OriginalError ELSE ""]

\* The position of a task after a step; a task that ends leaves its worker idle.
Goto(w, pc) ==
    IF pc \in TaskEnds THEN Ended(w, pc, 0) ELSE [task[w] EXCEPT !.pc = pc]

RECURSIVE Pow2(_)
\* 2^n
Pow2(n) == IF n = 0 THEN 1 ELSE 2 * Pow2(n - 1)

CalculateExponentialBackoffDelayOneIndexed(initial, r, max) ==
    IF initial * Pow2(r + 1) < max THEN initial * Pow2(r + 1) ELSE max

\* calculate_exponential_backoff_delay(initial_delay, retry_count, max_delay)
CalculateExponentialBackoffDelay(initial, r, max) ==
    IF initial * Pow2(r) < max THEN initial * Pow2(r) ELSE max

\* max_delay: int = 300
DefaultMaxDelay == 300

\* initial_retry_delay of the stage's task config
InitialRetryDelay(stage) == IF stage = "transcription" THEN 10 ELSE 5

RetriesExhaustedLate(r) == r >= TaskMaxRetries

\* if current_retries >= max_retries - 1
RetriesExhausted(r) == r >= TaskMaxRetries - 1

\* The next step is the transition of the video to status st (the status
\* update, then log_status_change), and after it the step nxt.
Transition(w, st, nxt) ==
    [task[w] EXCEPT !.pc = "setstatus", !.status = st, !.next = nxt]

\* Where an exception inside the service goes: transcribe_video catches it,
\* sets the video failed and raises again; process_summary lets it through
\* to the task.
ServiceRaises(stage) ==
    IF stage = "transcription" THEN "svcexcept" ELSE "taskexcept"

\* A worker takes a queued task.
TaskStart(w) ==
    /\ task[w].pc = "idle"
    /\ \E r \in DOMAIN taskQueue :
          /\ taskQueue[r] > 0
          /\ taskQueue' = [taskQueue EXCEPT ![r] = @ - 1]
          /\ task' = [task EXCEPT ![w] = [TaskIdle EXCEPT !.pc = "check", !.retries = r]]
    /\ UNCHANGED <<dbVars, consumer, workFailures, storageFaults, offPipe>>

TaskReturnsExistsNever(complete) == FALSE

\* if existing_transcript and existing_transcript.status == "ready" /
\* if existing_summary and existing_summary.summary_text: return 'exists'
TaskReturnsExists(complete) == complete

\* The task's own check: the artifact is complete -> return status 'exists'.
TaskCheckExisting(w) ==
    /\ task[w].pc = "check"
    /\ task' = [task EXCEPT ![w] =
          IF TaskReturnsExists(ArtifactComplete(PipeStage, consumer.vid))
          THEN Ended(w, "exists", 0)
          ELSE IF PipeStage = "transcription" THEN [@ EXCEPT !.pc = "findvideo"]
          ELSE [@ EXCEPT !.pc = "work"]]
    /\ UNCHANGED <<dbVars, consumer, taskQueue, workFailures, storageFaults, offPipe>>

\* transcribe_video: video = find_one; if video.status != "transcribing"
TaskFindVideo(w) ==
    /\ task[w].pc = "findvideo"
    /\ task' = [task EXCEPT ![w] =
          IF videoStatus[consumer.vid] # "transcribing"
          THEN Transition(w, "transcribing", "work")
          ELSE [@ EXCEPT !.pc = "work"]]
    /\ UNCHANGED <<dbVars, consumer, taskQueue, workFailures, storageFaults, offPipe>>

\* videos_repo.update({"id": video_id}, {"status": ...})
TaskSetStatus(w) ==
    /\ task[w].pc = "setstatus"
    /\ videoStatus' = [videoStatus EXCEPT ![consumer.vid] = task[w].status]
    /\ task' = [task EXCEPT ![w].pc = "logread"]
    /\ UNCHANGED <<transcripts, summaries, outbox, statusLog, processed,
                   consumer, taskQueue, workFailures, storageFaults, offPipe>>

\* log_status_change: latest row read and compared
TaskLogRead(w) ==
    /\ task[w].pc = "logread"
    /\ task' = [task EXCEPT ![w] =
          IF LogSkips(LatestStatus(consumer.vid), task[w].status)
          THEN Goto(w, task[w].next)
          ELSE [@ EXCEPT !.pc = "loginsert"]]
    /\ UNCHANGED <<dbVars, consumer, taskQueue, workFailures, storageFaults, offPipe>>

\* log_status_change: status_log_repo.create
TaskLogInsert(w) ==
    /\ task[w].pc = "loginsert"
    /\ statusLog' = [statusLog EXCEPT ![consumer.vid] = Append(@, task[w].status)]
    /\ task' = [task EXCEPT ![w] = Goto(w, task[w].next)]
    /\ UNCHANGED <<transcripts, summaries, outbox, videoStatus, processed,
                   consumer, taskQueue, workFailures, storageFaults, offPipe>>

UpdateRaisesThenLogs(w) == [task[w] EXCEPT !.pc = "logread"]

\* Where the task goes when videos_repo.update raises.  On the task's
\* terminal path (except status_error: raise e) the task ends with the
\* error chosen there and self.retry is not reached; in the except clause
\* of transcribe_video the error is logged and the first one raised to the
\* task; inside the service it is an exception of the service.
UpdateRaises(w) ==
    IF task[w].status = "failed"
    THEN IF task[w].next = "failed"
         THEN [Ended(w, "failed", 0) EXCEPT
                  !.raised = TerminalRaises(OriginalError, StatusError)]
         ELSE Goto(w, "taskexcept")
    ELSE IF task[w].status = "indexing" THEN Goto(w, "taskexcept")
    ELSE Goto(w, ServiceRaises(PipeStage))

\* videos_repo.update raises (storage error): the status is not written.
TaskSetStatusFails(w) ==
    /\ task[w].pc = "setstatus"
    /\ Len(storageFaults) < MaxStorageFaults
    /\ storageFaults' = Append(storageFaults, "update")
    /\ task' = [task EXCEPT ![w] = UpdateRaises(w)]
    /\ UNCHANGED <<dbVars, consumer, taskQueue, workFailures, offPipe>>

LogFailureRaises(w) == UpdateRaises(w)

\* log_status_change, except Exception: a warning is logged and None
\* returned, so the caller goes on with what follows the call.
LogFailure(w) == Goto(w, task[w].next)

\* log_status_change: the read of the latest row or the insert raises; no
\* row is written.
TaskLogFails(w) ==
    /\ task[w].pc \in {"logread", "loginsert"}
    /\ Len(storageFaults) < MaxStorageFaults
    /\ storageFaults' = Append(storageFaults, "log")
    /\ task' = [task EXCEPT ![w] = LogFailure(w)]
    /\ UNCHANGED <<dbVars, consumer, taskQueue, workFailures, offPipe>>

\* Download, model run and upload succeed.
TaskWorkOk(w) ==
    /\ task[w].pc = "work"
    /\ task' = [task EXCEPT ![w].pc = "savefind"]
    /\ UNCHANGED <<dbVars, consumer, taskQueue, workFailures, storageFaults, offPipe>>

\* Download, model run or upload raises.
TaskWorkFails(w) ==
    /\ task[w].pc = "work"
    /\ workFailures < MaxWorkFailures
    /\ workFailures' = workFailures + 1
    /\ task' = [task EXCEPT ![w].pc = ServiceRaises(PipeStage)]
    /\ UNCHANGED <<dbVars, consumer, taskQueue, storageFaults, offPipe>>

\* _save_*_with_outbox: existing = repo.find_one({"video_id": video_id})
TaskSaveFind(w) ==
    /\ task[w].pc = "savefind"
    /\ task' = [task EXCEPT ![w].pc = "savewrite",
                            ![w].existing = ArtifactExists(PipeStage, consumer.vid)]
    /\ UNCHANGED <<dbVars, consumer, taskQueue, workFailures, storageFaults, offPipe>>

\* After the artifact is written: the transcript save appends to the outbox,
\* the summary save first moves the video to 'indexing'.
AfterArtifact(w) ==
    IF PipeStage = "transcription" THEN [task[w] EXCEPT !.pc = "outbox"]
    ELSE Transition(w, "indexing", "outbox")

\* _save_*_with_outbox: repo.update when a row was found, repo.create when
\* none was.  video_id is unique in both tables: a create that meets a row
\* written since the find raises, the except clause rolls back and raises.
TaskSaveWrite(w) ==
    /\ task[w].pc = "savewrite"
    /\ IF ~task[w].existing /\ ArtifactExists(PipeStage, consumer.vid)
       THEN /\ task' = [task EXCEPT ![w].pc = ServiceRaises(PipeStage)]
            /\ UNCHANGED <<transcripts, summaries>>
       ELSE /\ task' = [task EXCEPT ![w] = AfterArtifact(w)]
            /\ IF PipeStage = "transcription"
               THEN /\ transcripts' = [transcripts EXCEPT ![consumer.vid] = "ready"]
                    /\ UNCHANGED summaries
               ELSE /\ summaries' = [summaries EXCEPT ![consumer.vid] = "text"]
                    /\ UNCHANGED transcripts
    /\ UNCHANGED <<outbox, videoStatus, statusLog, processed,
                   consumer, taskQueue, workFailures, storageFaults, offPipe>>

\* outbox_service.add_to_outbox(topic, payload, service); then
\* transcribe_video moves the video to 'summarizing' and returns, and
\* process_summary returns.
TaskAddToOutbox(w) ==
    /\ task[w].pc = "outbox"
    /\ outbox' = Append(outbox, NewOutboxRow(CompletionTopic(PipeStage), consumer.vid))
    /\ task' = [task EXCEPT ![w] =
          IF PipeStage = "transcription" THEN Transition(w, "summarizing", "completed")
          ELSE Ended(w, "completed", 0)]
    /\ UNCHANGED <<transcripts, summaries, videoStatus, statusLog, processed,
                   consumer, taskQueue, workFailures, storageFaults, offPipe>>

\* transcribe_video, except Exception: the video is set to 'failed' and the
\* change logged, then the error is raised to the task.
TaskServiceExcept(w) ==
    /\ task[w].pc = "svcexcept"
    /\ task' = [task EXCEPT ![w] = Transition(w, "failed", "taskexcept")]
    /\ UNCHANGED <<dbVars, consumer, taskQueue, workFailures, storageFaults, offPipe>>

\* The task's except clause: with the retries used up
\* (current_retries >= max_retries - 1) the video is set to 'failed' and the
\* error raised; otherwise self.retry queues the task again.
TaskExcept(w) ==
    /\ task[w].pc = "taskexcept"
    /\ IF RetriesExhausted(task[w].retries)
       THEN /\ task' = [task EXCEPT ![w] = Transition(w, "failed", "failed")]
            /\ UNCHANGED taskQueue
       ELSE /\ taskQueue' = [taskQueue EXCEPT ![task[w].retries + 1] = @ + 1]
            /\ task' = [task EXCEPT ![w] = Ended(w, "retry",
                  CalculateExponentialBackoffDelay(InitialRetryDelay(PipeStage),
                                                   task[w].retries, DefaultMaxDelay))]
    /\ UNCHANGED <<dbVars, consumer, workFailures, storageFaults, offPipe>>

TaskStep(w) ==
    \/ TaskStart(w)
    \/ TaskCheckExisting(w)
    \/ TaskFindVideo(w)
    \/ TaskSetStatus(w)
    \/ TaskLogRead(w)
    \/ TaskLogInsert(w)
    \/ TaskWorkOk(w)
    \/ TaskWorkFails(w)
    \/ TaskSaveFind(w)
    \/ TaskSaveWrite(w)
    \/ TaskAddToOutbox(w)
    \/ TaskServiceExcept(w)
    \/ TaskExcept(w)

\* Storage errors met by a stage task.
TaskFaultStep(w) ==
    \/ TaskSetStatusFails(w)
    \/ TaskLogFails(w)

NextPipe ==
    \/ HandlerStep
    \/ \E w \in Workers : TaskStep(w)

SpecPipe == InitPipe /\ [][NextPipe]_vars

\* SpecHandle: the same program with one task worker, so that the stage tasks
\* run one after the other, and with storage errors in the status updates
\* and the status log.
NextHandle ==
    \/ HandlerStep
    \/ TaskStep(1)
    \/ TaskFaultStep(1)

SpecHandle == InitPipe /\ [][NextHandle]_vars

\* Every delivery is handled and every task it led to has ended.
PipeQuiescent == consumer.pc = "idle" /\ TasksOutstanding = 0

\* The completion events of the stage in the outbox.
CompletionEvents ==
    {i \in OutboxIds : /\ outbox[i].topic = CompletionTopic(PipeStage)
                       /\ outbox[i].vid = consumer.vid}

\* The state one delivery of the event ends in when the external work does
\* not fail: the artifact complete, the video moved to the next stage, one
\* completion event, one status-log row per transition.
OnceFinal ==
    /\ ArtifactComplete(PipeStage, consumer.vid)
    /\ Cardinality(CompletionEvents) = 1
    /\ IF PipeStage = "transcription"
       THEN /\ videoStatus[consumer.vid] = "summarizing"
            /\ statusLog[consumer.vid] = <<"transcribing", "summarizing">>
       ELSE /\ videoStatus[consumer.vid] = "indexing"
            /\ statusLog[consumer.vid] = <<"transcribing", "summarizing", "indexing">>

\* C8: delivering the stage event of a video twice, in any interleaving with
\* the stage tasks, ends in the state that delivering it once ends in: the
\* same Videos.status, one complete artifact, the same outbox records and
\* the same status-log rows.
C8_TwiceAsOnce ==
    (consumer.deliveries >= 1 /\ PipeQuiescent /\ workFailures = 0
        /\ storageFaults = <<>>) => OnceFinal

\* C9 as stated: a delivery never dispatches the stage task while the event
\* is marked processed and a task dispatched before has not ended.
C9_NoSecondDispatch == ~consumer.again

\* C9 as the handlers have it: a delivery to
\* handle_kafka_event_with_idempotency that finds the marker returns without
\* dispatching; a delivery handled by handle_video_transcoded or
\* handle_video_transcribed has dispatched the task exactly when it found
\* the artifact not complete, whatever the marker says.
C9_DispatchByArtifact ==
    /\ consumer.handler = HandleWithIdempotency =>
          /\ ~consumer.again
          /\ consumer.wasProcessed => ~consumer.queued
    /\ (ChecksArtifact(consumer.handler) /\ consumer.pc = "idle"
            /\ consumer.deliveries >= 1) =>
          (consumer.queued <=> ~consumer.sawComplete)

\* The second delivery came while the first delivery's task had not ended
\* and the event was marked: the stage handler dispatched a second task.
C9_Witness ==
    /\ ChecksArtifact(consumer.handler)
    /\ consumer.pc = "idle" /\ consumer.deliveries = 2
    /\ consumer.again /\ consumer.dispatched = 2
    /\ TasksOutstanding = 2

\* C10: a delivery that finds the event marked processed and the artifact
\* missing or incomplete dispatches the stage task: in the stage handlers
\* the marker alone never ends the handling.
C10_MarkerNeverPrevents ==
    (consumer.handler \in StageHandlers /\ consumer.wasProcessed
        /\ ~consumer.sawComplete /\ consumer.pc \in {"mark", "idle"}) => consumer.queued

\* A second delivery found the marker of the first and no complete artifact,
\* and the task is queued again.
C10_Witness ==
    /\ ChecksArtifact(consumer.handler)
    /\ consumer.pc = "idle" /\ consumer.deliveries = 2
    /\ consumer.wasProcessed /\ ~consumer.sawComplete /\ consumer.queued
    /\ ~ArtifactComplete(PipeStage, consumer.vid)

\* C11: a delivery that came when the artifact was already complete never
\* dispatches the stage task, marker or no marker.
C11_CompleteNeverDispatched ==
    (consumer.handler \in StageHandlers /\ consumer.arrivedComplete) =>
        /\ ~consumer.queued
        /\ consumer.pc \in {"artifact", "skipmark", "idle"}

\* A delivery that found the artifact complete and no marker has returned,
\* and the one task dispatched before is all that was dispatched.
C11_Witness ==
    /\ consumer.handler \in StageHandlers
    /\ consumer.pc = "idle" /\ consumer.deliveries = 2
    /\ consumer.arrivedComplete /\ consumer.sawComplete
    /\ ~consumer.wasProcessed /\ consumer.dispatched = 1

(***************************************************************************)
(* SpecCycle: one poll cycle of the outbox publisher over a batch of       *)
(* CycleRecords unpublished records.  Every record's publish task runs     *)
(* once, its send succeeding or failing; a task that failed is queued      *)
(* again by self.retry with default_retry_delay, which is after the cycle. *)
(***************************************************************************)
CycleIds == 1..CycleRecords

InitCycle ==
    /\ CallQuiet
    /\ transcripts = [v \in Videos |-> "ready"]
    /\ summaries = [v \in Videos |-> "none"]
    /\ outbox = [i \in CycleIds |-> NewOutboxRow(TopicTranscribed, 1)]
    /\ videoStatus = [v \in Videos |-> "summarizing"]
    /\ statusLog = [v \in Videos |-> <<"transcribing", "summarizing">>]
    /\ processed = {}
    /\ pubQueue = {}
    /\ pubTask = [w \in Workers |-> PubIdle]
    /\ inflight = [i \in CycleIds |-> FALSE]
    /\ bus = [i \in CycleIds |-> FALSE]
    /\ sent = [i \in CycleIds |-> 0]
    /\ faults = 0
    /\ SaveQuiet
    /\ MarkQuiet
    /\ LogQuiet
    /\ PipeQuiet

\* Nothing of the batch has been queued, sent or counted yet.
CycleFresh ==
    /\ pubQueue = {}
    /\ \A w \in Workers : pubTask[w].pc = "idle"
    /\ \A i \in OutboxIds : ~outbox[i].published /\ outbox[i].attempts = 0

\* The poll of the cycle.
CyclePoll == CycleFresh /\ PollAndPublish

\* A worker runs a task the poll queued (not one queued again by self.retry).
CycleTaskStep(w) ==
    \/ \E t \in pubQueue : t.retries = 0 /\ PublishTaskStart(w, t)
    \/ PublishTaskFind(w)
    \/ PublishTaskSendOk(w)
    \/ PublishTaskSendFailsWithin(w, CycleRecords)
    \/ PublishTaskMark(w)
    \/ PublishTaskIncrRead(w)
    \/ PublishTaskIncrWrite(w)
    \/ PublishTaskRetry(w)

NextCycle ==
    \/ CyclePoll
    \/ \E w \in Workers : CycleTaskStep(w)
    \/ \E i \in CycleIds : Deliver(i)
    \/ \E i \in CycleIds : DeliveryFails(i)

SpecCycle == InitCycle /\ [][NextCycle]_vars

\* The poll has run and every task it queued has ended.
CycleDone ==
    /\ ~CycleFresh
    /\ \A w \in Workers : pubTask[w].pc = "idle"
    /\ \A t \in pubQueue : t.retries > 0

\* C12: after a poll cycle the records whose send succeeded, and only they,
\* are published, with attempts untouched; the records whose send failed,
\* and only they, have attempts raised by one, are unpublished and are in
\* the next cycle's batch.
C12_PerRecordOutcome ==
    CycleDone =>
        \A i \in OutboxIds :
            /\ sent[i] > 0 =>
                  outbox[i].published /\ outbox[i].attempts = 0
            /\ sent[i] = 0 =>
                  /\ ~outbox[i].published /\ outbox[i].attempts = 1
                  /\ i \in Range(GetUnpublishedEvents(PollLimit))

\* Three records, the send of record 2 failed, those of 1 and 3 succeeded.
C12_Witness ==
    /\ CycleDone
    /\ Len(outbox) >= 3
    /\ sent[1] > 0 /\ sent[2] = 0 /\ sent[3] > 0
    /\ outbox[1].published /\ ~outbox[2].published /\ outbox[3].published
    /\ outbox[2].attempts = 1

\* C13: a record that is published stays published, whatever publish tasks,
\* mark_as_published and increment_attempts do to it afterwards; so the flag
\* goes from false to true once.
C13_PublishedStays ==
    [][\A i \in OutboxIds : outbox[i].published => outbox'[i].published]_vars

\* A task whose send failed has written the attempts of a record that
\* another task had marked published meanwhile.
C13_Witness ==
    \E w \in Workers :
        /\ pubTask[w].pc = "retry"
        /\ outbox[pubTask[w].id].published
        /\ outbox[pubTask[w].id].attempts > 0

(***************************************************************************)
(* SpecIncr: the publisher while the bus refuses messages.  The poll loop  *)
(* queues a task for every unpublished record at every cycle, so a record  *)
(* whose task has not ended gets a second task.                            *)
(***************************************************************************)
IncrTaskStep(w) ==
    \/ \E t \in pubQueue : PublishTaskStart(w, t)
    \/ PublishTaskFind(w)
    \/ PublishTaskSendOk(w)
    \/ PublishTaskSendFailsWithin(w, MaxSendFailures)
    \/ PublishTaskMark(w)
    \/ PublishTaskIncrRead(w)
    \/ PublishTaskIncrWrite(w)
    \/ PublishTaskRetry(w)

NextIncr ==
    \/ \E v \in {1} : AddToOutbox(TopicTranscribed, v)
    \/ PollAndPublish
    \/ \E w \in Workers : IncrTaskStep(w)

SpecIncr == InitPub /\ [][NextIncr]_vars

\* C14: no step lowers the attempts counter of an outbox record.
C14_AttemptsNeverDecrease ==
    [][\A i \in OutboxIds : outbox'[i].attempts >= outbox[i].attempts]_vars

\* A counter that has reached 2 while a task still holds a smaller value it
\* read before and is about to write.
C14_StaleWrite ==
    \E w \in Workers :
        /\ pubTask[w].pc = "incrwrite"
        /\ outbox[pubTask[w].id].attempts = 2
        /\ pubTask[w].att = 0

\* C15: a stage task that fails at retry count r below max_retries - 1 calls
\* self.retry with countdown initial_retry_delay * 2^r (10 s then 20 s for
\* transcription, 5 s then 10 s for summarization); at max_retries - 1 it
\* sets the video failed (the update not raising) and ends without a retry;
\* so no task is queued or run with a retry count of max_retries or more:
\* the body runs at most max_retries times per dispatched task.
C15_RetryPolicy ==
    /\ \A r \in DOMAIN taskQueue : r > TaskMaxRetries - 1 => taskQueue[r] = 0
    /\ \A w \in Workers :
          /\ task[w].retries <= TaskMaxRetries - 1
          /\ task[w].ended = "retry" =>
                /\ task[w].retries < TaskMaxRetries - 1
                /\ task[w].countdown =
                      IF PipeStage = "transcription"
                      THEN (IF task[w].retries = 0 THEN 10 ELSE 20)
                      ELSE (IF task[w].retries = 0 THEN 5 ELSE 10)
          /\ task[w].ended = "failed" =>
                /\ task[w].retries = TaskMaxRetries - 1
                /\ task[w].countdown = 0
                /\ storageFaults = <<>> => videoStatus[consumer.vid] = "failed"
          /\ (task[w].pc = "taskexcept" /\ task[w].retries >= TaskMaxRetries - 1) =>
                taskQueue[TaskMaxRetries] = 0

\* A task failed three times: retried after the first two failures, ended
\* failed after the third.
C15_Witness ==
    /\ task[1].ended = "failed"
    /\ task[1].retries = TaskMaxRetries - 1
    /\ workFailures = 3
    /\ storageFaults = <<>>
    /\ QueuedTasks = 0

\* C16: a step that sets a video failed, or appends a 'failed' row to its
\* status log, is a step of a task on the attempt that exhausts the retry
\* budget; an attempt that will be retried changes neither.
C16_FailedOnlyWhenExhausted ==
    [][\A v \in Videos :
          (\/ videoStatus'[v] = "failed" /\ videoStatus[v] # "failed"
           \/ /\ Len(statusLog'[v]) > Len(statusLog[v])
              /\ statusLog'[v][Len(statusLog'[v])] = "failed")
          => \E w \in Workers :
                /\ task[w].pc \in {"setstatus", "loginsert"}
                /\ task[w].status = "failed"
                /\ RetriesExhausted(task[w].retries)]_vars

\* The first attempt of a transcription task failed and is retried, and the
\* video is failed with a 'failed' row in its log.
C16_FailedBeforeRetry ==
    /\ PipeStage = "transcription"
    /\ task[1].ended = "retry" /\ task[1].retries = 0
    /\ videoStatus[consumer.vid] = "failed"
    /\ LatestStatus(consumer.vid) = "failed"

\* The one transcription task dispatched for the video failed on its first
\* two attempts and completed on the third.
FailedTwiceThenCompleted ==
    /\ PipeStage = "transcription"
    /\ consumer.dispatched = 1
    /\ workFailures = 2
    /\ task[1].ended = "completed" /\ task[1].retries = 2

\* C17: a pending video whose transcription fails twice and succeeds on the
\* third attempt ends in the next stage, 'summarizing', and its status log
\* holds one row per transition (transcribing, summarizing) after the row
\* it started with: the retries add none.
C17_ThreeEntries ==
    FailedTwiceThenCompleted =>
        /\ videoStatus[consumer.vid] = "summarizing"
        /\ statusLog[consumer.vid] = <<"transcribing", "summarizing">>

\* The same run with the rows the attempts really leave.
C17_RowsPerRetry ==
    /\ FailedTwiceThenCompleted
    /\ videoStatus[consumer.vid] = "summarizing"
    /\ statusLog[consumer.vid] = <<"transcribing", "failed", "transcribing",
                                   "failed", "transcribing", "summarizing">>

\* C18: on the terminal failure path, when the update of the video to
\* 'failed' (or the logging of it) raises, the error that leaves the task is
\* the original processing error, and the task is not queued again: a task
\* that ends 'failed' raised the original error, every task that ended with
\* self.retry had retries left, and no task is queued past the last retry.
C18_OriginalErrorNoReschedule ==
    /\ \A w \in Workers :
          /\ task[w].ended = "failed" => task[w].raised = OriginalError
          /\ task[w].ended = "retry" => task[w].retries < TaskMaxRetries - 1
    /\ taskQueue[TaskMaxRetries] = 0

\* The summary task ended on its terminal path and the video is not 'failed':
\* the update on that path raised.
C18_Witness ==
    /\ PipeStage = "summary"
    /\ task[1].ended = "failed" /\ task[1].retries = TaskMaxRetries - 1
    /\ task[1].raised = OriginalError
    /\ storageFaults = <<"update">>
    /\ videoStatus[consumer.vid] = "summarizing"
    /\ QueuedTasks = 0

\* C19: once a video's status is 'failed' or 'completed', no step changes
\* Videos.status or appends a status-log row for it (the row of the terminal
\* status itself, written right after the update, excepted).
C19_TerminalStays ==
    [][\A v \in Videos :
          videoStatus[v] \in {"failed", "completed"} =>
              /\ videoStatus'[v] = videoStatus[v]
              /\ \/ statusLog'[v] = statusLog[v]
                 \/ statusLog'[v] = Append(statusLog[v], videoStatus[v])]_vars

\* A transcription task used up its retries and left the video 'failed'; the
\* event was delivered again and the task dispatched for it has moved the
\* video back to 'transcribing'.
C19_RevivedByRedelivery ==
    /\ PipeStage = "transcription"
    /\ workFailures = TaskMaxRetries /\ storageFaults = <<>>
    /\ consumer.dispatched = 2
    /\ task[1].pc = "work" /\ task[1].retries = 0
    /\ videoStatus[consumer.vid] = "transcribing"
    /\ Len(statusLog[consumer.vid]) >= 2
    /\ statusLog[consumer.vid][Len(statusLog[consumer.vid]) - 1] = "failed"
    /\ statusLog[consumer.vid][Len(statusLog[consumer.vid])] = "transcribing"

\* No status update of video v is waiting for its log row.
NoTransitionInProgress(v) ==
    \A w \in Workers :
        (task[w].pc \in {"logread", "loginsert"}) => consumer.vid # v

IsProcessedCall(c, x, t) ==
    /\ mark[c].pc = "idle"
    /\ mark' = [mark EXCEPT ![c] = [MarkIdle EXCEPT !.op = "is_processed",
                   !.id = x, !.topic = t, !.pc = "lookup"]]
    /\ UNCHANGED <<processed, offMark>>

\* if message: (a warning when topic and message.topic != topic) return True;
\* return False
IsProcessedReturns(message, topic) == message.id # 0

\* message = self.processed_repo.find_one({"id": str(event_id)})
IsProcessedLookup(c) ==
    /\ mark[c].pc = "lookup"
    /\ mark' = [mark EXCEPT ![c].pc = "returned",
                            ![c].result = FindProcessed(mark[c].id),
                            ![c].ret = IsProcessedReturns(FindProcessed(mark[c].id),
                                                          mark[c].topic)]
    /\ UNCHANGED <<processed, offMark>>

LookupErrorRaises(call) == [call EXCEPT !.pc = "raised", !.err = "connection refused"]

\* except Exception as e: the error is logged; return False
LookupError(call) ==
    [call EXCEPT !.pc = "returned", !.err = "connection refused", !.ret = FALSE]

\* find_one raises (the store is unavailable).
IsProcessedLookupFails(c) ==
    /\ mark[c].pc = "lookup"
    /\ mark' = [mark EXCEPT ![c] = LookupError(mark[c])]
    /\ UNCHANGED <<processed, offMark>>

NextLedger ==
    \/ NextMark
    \/ \E c \in Workers, x \in EventIds, t \in ConsumerTopics : IsProcessedCall(c, x, t)
    \/ \E c \in Workers : IsProcessedLookup(c)
    \/ \E c \in Workers : IsProcessedLookupFails(c)

SpecLedger == InitMark /\ [][NextLedger]_vars

\* C21: is_processed fails open: no is_processed call raises, and a call
\* whose lookup raised returns False.
C21_FailsOpen ==
    \A c \in Workers :
        mark[c].op = "is_processed" =>
            /\ mark[c].pc # "raised"
            /\ (mark[c].pc = "returned" /\ mark[c].err # "") => ~mark[c].ret

\* The lookup of an event that is marked processed raised, and the call
\* returned False.
C21_Witness ==
    \E c \in Workers :
        /\ mark[c].op = "is_processed" /\ mark[c].pc = "returned"
        /\ mark[c].err = "connection refused" /\ ~mark[c].ret
        /\ [id |-> mark[c].id, topic |-> mark[c].topic] \in processed

\* C23: is_processed(X, T) returns True only if a processed-message row for
\* X on topic T exists; a row for X under another topic does not make it
\* True.
C23_TrueOnlyForTopic ==
    \A c \in Workers :
        (mark[c].op = "is_processed" /\ mark[c].pc = "returned" /\ mark[c].ret) =>
            [id |-> mark[c].id, topic |-> mark[c].topic] \in processed

\* is_processed returned True for an event marked on another topic only.
C23_OtherTopic ==
    \E c \in Workers :
        /\ mark[c].op = "is_processed" /\ mark[c].pc = "returned" /\ mark[c].ret
        /\ mark[c].result.id = mark[c].id
        /\ mark[c].result.topic # mark[c].topic
        /\ ProcessedRows(mark[c].id) = {mark[c].result}

(***************************************************************************)
(* SpecConsume: KafkaConsumer.consume and a consumer handler, from the     *)
(* payload on.  The payloads delivered are well formed or not, the         *)
(* handler's storage calls can raise, and one worker runs the tasks the    *)
(* handler dispatches.                                                     *)
(***************************************************************************)
\* The integers of a payload.
Zero == "int:0"

NumTable == <<"int:1", "int:2", "int:3">>

Num(n) == NumTable[n]

NumValue(x) == CHOOSE n \in DOMAIN NumTable : NumTable[n] = x

\* Python truth value False: None, the empty string, zero.
Falsy(x) == x \in {None, "", Zero}

\* str(id) of the ids of the model, and the id a key stands for.
StrTable == <<"1", "2", "3", "4", "5">>

Str(i) == StrTable[i]

KeyId(k) == CHOOSE i \in DOMAIN StrTable : StrTable[i] = k

\* validate_kafka_payload(payload, required_fields) -> (event_id, video_id)
ValidateKafkaPayload(payload, required) ==
    LET event_id == IF ~Falsy(payload.eventId) THEN payload.eventId ELSE payload.id
        missing_fields == {f \in required : Falsy(payload[f])}
    IN  IF missing_fields # {} THEN <<None, None>>
        ELSE IF Falsy(event_id) THEN <<None, None>>
        ELSE <<event_id, IF "videoId" \in required THEN payload.videoId ELSE None>>

RejectedNever(r) == FALSE

\* if not event_id or video_id is None: return
Rejected(r) == Falsy(r[1]) \/ r[2] = None

\* The payloads a message can carry: event 1 of video 1, with keys absent
\* or empty.
Payloads ==
    [eventId : {None, "", Str(1)}, id : {None, Str(1)}, videoId : {None, Zero, Num(1)}]

\* The payload has no event identifier, or no videoId.
Malformed(p) == (p.eventId = None /\ p.id = None) \/ p.videoId = None

\* consume: payload = json.loads(msg.value()); self.handler(payload).  The
\* handler validates the payload and returns at once when it is rejected.
HandleReceive(p) ==
    LET r == ValidateKafkaPayload(p, {"videoId"})
    IN  /\ consumer.pc = "idle"
        /\ consumer.deliveries < MaxDeliveries
        /\ consumer' =
              IF Rejected(r)
              THEN [consumer EXCEPT
                      !.deliveries = @ + 1, !.payload = p,
                      !.arrivedComplete = FALSE, !.sawComplete = FALSE,
                      !.wasProcessed = FALSE, !.queued = FALSE,
                      !.fault = "", !.raised = FALSE]
              ELSE [consumer EXCEPT
                      !.pc = IF ChecksArtifact(consumer.handler) THEN "artifact"
                             ELSE "isprocessed",
                      !.id = IF Falsy(r[1]) THEN 0 ELSE KeyId(r[1]),
                      !.vid = IF r[2] = None THEN 1 ELSE NumValue(r[2]),
                      !.deliveries = @ + 1, !.payload = p,
                      !.arrivedComplete = ArtifactComplete(PipeStage, consumer.vid),
                      !.sawComplete = FALSE, !.wasProcessed = FALSE, !.queued = FALSE,
                      !.fault = "", !.raised = FALSE]
        /\ UNCHANGED <<dbVars, taskQueue, task, workFailures, storageFaults, offPipe>>

\* The stage handlers' artifact lookup raises (the store is unavailable):
\* nothing in the handler catches it, db_session_context rolls back and
\* raises, and consume logs "Error processing message".
HandleArtifactLookupFails ==
    /\ consumer.pc = "artifact"
    /\ consumer' = [consumer EXCEPT !.pc = "idle", !.fault = "artifact",
                                    !.raised = TRUE]
    /\ UNCHANGED <<dbVars, taskQueue, task, workFailures, storageFaults, offPipe>>

\* The lookup inside is_processed raises: is_processed returns False.
HandleIsProcessedFails ==
    /\ consumer.pc = "isprocessed"
    /\ consumer' = [consumer EXCEPT !.pc = "dispatch", !.fault = "isprocessed",
                                    !.wasProcessed = LookupError(MarkIdle).ret]
    /\ UNCHANGED <<dbVars, taskQueue, task, workFailures, storageFaults, offPipe>>

\* consume goes on to the next message when the handler has returned or
\* raised (except Exception: logger.error), and the consumer commits its
\* offsets by itself (enable.auto.commit): the deliveries it has moved past.
OffsetsPassed ==
    IF consumer.pc = "idle" THEN consumer.deliveries ELSE consumer.deliveries - 1

NextConsume ==
    \/ \E p \in Payloads : HandleReceive(p)
    \/ HandleCheckArtifact
    \/ HandleSkipMark
    \/ HandleIsProcessed
    \/ HandleDispatch
    \/ HandleMark
    \/ HandleMarkFails
    \/ HandleArtifactLookupFails
    \/ HandleIsProcessedFails
    \/ TaskStep(1)

SpecConsume == InitPipe /\ [][NextConsume]_vars

\* C22: when a storage call fails while the handler handles a well-formed
\* event whose artifact is not complete, the event is dispatched to the
\* stage task, or the consumer has not moved past it (it will be delivered
\* again).
C22_NeverDropped ==
    (/\ consumer.pc = "idle"
     /\ consumer.deliveries >= 1
     /\ consumer.fault # ""
     /\ ~consumer.arrivedComplete) =>
        consumer.queued \/ OffsetsPassed < consumer.deliveries

\* The artifact lookup raised on the only delivery of the event: nothing was
\* dispatched, nothing is queued or running, and the consumer is past the
\* message.
C22_Dropped ==
    /\ consumer.pc = "idle"
    /\ consumer.deliveries = 1 /\ OffsetsPassed = 1
    /\ consumer.fault = "artifact" /\ consumer.raised
    /\ ~ArtifactComplete(PipeStage, consumer.vid)
    /\ consumer.dispatched = 0 /\ TasksOutstanding = 0

C25_MarkFailureCaught ==
    (consumer.pc = "idle" /\ consumer.fault = "mark" /\ consumer.queued) =>
        /\ consumer.dispatched >= 1
        /\ ~consumer.raised

\* mark_as_processed failed after the only dispatch: the task runs to its
\* end all the same, and the handler call ended with the exception of the
\* context manager's commit.
C25_RaisedAfterDispatch ==
    /\ consumer.pc = "idle" /\ consumer.deliveries = 1
    /\ consumer.fault = "mark" /\ consumer.queued /\ consumer.raised
    /\ consumer.dispatched = 1
    /\ task[1].ended = "completed"
    /\ processed = {}

(***************************************************************************)
(* SpecWire: one outbox record from the publish task to the consumer: the  *)
(* message publish_outbox_event_task builds from the stored payload, and   *)
(* the key validate_kafka_payload takes from the message, for every send   *)
(* of the record.                                                          *)
(***************************************************************************)
\* The payloads a producer may have stored, with an eventId and an id of its
\* own or without.
StoredPayloads ==
    [eventId : {None, "", Str(1), Str(2), "9"}, id : {None, Str(1), "9"},
     videoId : {None, Zero, Num(1)}]

InitWire ==
    /\ transcripts = [v \in Videos |-> "none"]
    /\ summaries = [v \in Videos |-> "none"]
    /\ outbox = <<>>
    /\ videoStatus = [v \in Videos |-> "pending"]
    /\ statusLog = [v \in Videos |-> <<>>]
    /\ processed = {}
    /\ SaveQuiet
    /\ PubQuiet
    /\ MarkQuiet
    /\ LogQuiet
    /\ PipeQuiet
    /\ clock = 1
    /\ polled = NotPolled
    /\ OtherQuiet
    /\ \E i \in RecordIds, p \in StoredPayloads :
          wire = [WireIdle EXCEPT !.rid = i, !.stored = p]

BuildMessageKeepsEventId(rid, stored) ==
    IF stored.eventId = None THEN [stored EXCEPT !.eventId = Str(rid)] ELSE stored

\* payload={**event.payload, "eventId": str(event.id)}
BuildMessage(rid, stored) == [stored EXCEPT !.eventId = Str(rid)]

\* The publish task sends the record (again).
WirePublish ==
    /\ wire.pc \in {"idle", "received"}
    /\ wire.sends < MaxSends
    /\ wire' = [wire EXCEPT !.pc = "sent", !.sends = @ + 1,
                            !.message = BuildMessage(wire.rid, wire.stored)]
    /\ UNCHANGED <<dbVars, saveVars, pubVars, mark, lg, pipeVars, clock, polled, otherVars>>

\* The consumer handler takes its key from the message.
WireReceive ==
    /\ wire.pc = "sent"
    /\ wire' = [wire EXCEPT
          !.pc = "received",
          !.key = ValidateKafkaPayload(wire.message, {"videoId"})[1],
          !.keys = @ \cup {ValidateKafkaPayload(wire.message, {"videoId"})[1]}]
    /\ UNCHANGED <<dbVars, saveVars, pubVars, mark, lg, pipeVars, clock, polled, otherVars>>

NextWire == WirePublish \/ WireReceive

SpecWire == InitWire /\ [][NextWire]_vars

\* C26: every message sent for outbox record R carries eventId = str(R.id),
\* whatever eventId the stored payload has; the key the consumer takes from
\* a message it accepts is that same value, so all sends of the record give
\* one key.
C26_KeyIsRecordId ==
    /\ wire.pc \in {"sent", "received"} => wire.message.eventId = Str(wire.rid)
    /\ wire.pc = "received" =>
          wire.key = IF Rejected(ValidateKafkaPayload(wire.message, {"videoId"}))
                     THEN None ELSE Str(wire.rid)
    /\ wire.keys \subseteq {None, Str(wire.rid)}
    /\ Cardinality(wire.keys) <= 1

\* The record was sent twice; its stored payload carries another eventId and
\* another id, and both sends gave the record's id as the key.
C26_Witness ==
    /\ wire.pc = "received" /\ wire.sends = 2
    /\ wire.stored.eventId \notin {None, "", Str(wire.rid)}
    /\ wire.stored.id \notin {None, Str(wire.rid)}
    /\ wire.keys = {Str(wire.rid)}

(***************************************************************************)
(* SpecKeep: one outbox record whose send fails up to MaxKeepFailing       *)
(* times, more often than one publish task retries; the scheduler keeps    *)
(* polling and one worker runs the publish tasks.                          *)
(***************************************************************************)
InitKeep ==
    /\ CallQuiet
    /\ transcripts = [v \in Videos |-> "ready"]
    /\ summaries = [v \in Videos |-> "none"]
    /\ outbox = <<NewOutboxRow(TopicTranscribed, 1)>>
    /\ videoStatus = [v \in Videos |-> "summarizing"]
    /\ statusLog = [v \in Videos |-> <<"transcribing", "summarizing">>]
    /\ processed = {}
    /\ SaveQuiet
    /\ PubQuiet
    /\ MarkQuiet
    /\ LogQuiet
    /\ PipeQuiet

KeepTaskStep(w) ==
    \/ \E t \in pubQueue : PublishTaskStart(w, t)
    \/ PublishTaskFind(w)
    \/ PublishTaskSendOk(w)
    \/ PublishTaskSendFailsWithin(w, MaxKeepFailing)
    \/ PublishTaskMark(w)
    \/ PublishTaskIncrRead(w)
    \/ PublishTaskIncrWrite(w)
    \/ PublishTaskRetry(w)

NextKeep ==
    \/ PollAndPublish
    \/ KeepTaskStep(1)

SpecKeep == InitKeep /\ [][NextKeep]_vars

\* run_forever keeps calling poll_and_publish and the worker keeps running
\* the tasks it holds or finds queued.
SpecKeepFair ==
    /\ SpecKeep
    /\ WF_vars(PollAndPublish)
    /\ WF_vars(KeepTaskStep(1))

\* C27: a record whose send keeps failing is never abandoned: as long as it
\* is unpublished every poll returns it, and after each failed send another
\* send of the record follows (one that fails again, or the one that gets it
\* published), however many have failed before; max_retries of the publish
\* task does not end that.
C27_NeverAbandoned ==
    /\ [](\A i \in OutboxIds :
            ~outbox[i].published => i \in Range(GetUnpublishedEvents(PollLimit)))
    /\ \A k \in 0..(MaxKeepFailing - 1) :
          (faults = k /\ ~outbox[1].published) ~> (faults > k \/ outbox[1].published)

\* More sends of the record have failed than one publish task makes
\* (max_retries + 1), the record is still unpublished, and a task queued by
\* a later poll is sending it again.
C27_Witness ==
    /\ faults > PublishMaxRetries + 1
    /\ outbox[1].attempts > PublishMaxRetries + 1
    /\ ~outbox[1].published
    /\ pubTask[1].pc = "publish" /\ pubTask[1].id = 1 /\ pubTask[1].retries = 0

(***************************************************************************)
(* SpecStamp: mark_as_published called by publish tasks that have sent     *)
(* their record, for records already marked or not and for an id no record *)
(* has, while time passes between the calls.                               *)
(***************************************************************************)
\* One more id than there are records: the last one is an unknown id.
StampIds == 1..(MaxOutbox + 1)

\* A record an earlier call marked at time 1.
MarkedRow(topic, v) ==
    [NewOutboxRow(topic, v) EXCEPT !.published = TRUE, !.published_at = 1]

\* A publish task that has sent record i and is about to call
\* outbox_service.mark_as_published(UUID(event_id)).
AboutToMark(i) == [PubIdle EXCEPT !.pc = "mark", !.id = i]

InitStamp ==
    /\ CallQuiet
    /\ transcripts = [v \in Videos |-> "ready"]
    /\ summaries = [v \in Videos |-> "none"]
    /\ outbox \in [RecordIds -> {NewOutboxRow(TopicTranscribed, 1),
                                 MarkedRow(TopicTranscribed, 1)}]
    /\ videoStatus = [v \in Videos |-> "summarizing"]
    /\ statusLog = [v \in Videos |-> <<"transcribing", "summarizing">>]
    /\ processed = {}
    /\ SaveQuiet
    /\ pubQueue = {}
    /\ pubTask \in [Workers -> {AboutToMark(i) : i \in StampIds}]
    /\ inflight = [i \in RecordIds |-> FALSE]
    /\ bus = [i \in RecordIds |-> outbox[i].published]
    /\ sent = [i \in RecordIds |-> IF outbox[i].published THEN 1 ELSE 0]
    /\ faults = 0
    /\ MarkQuiet
    /\ LogQuiet
    /\ PipeQuiet

\* Time passes: the next datetime.utcnow() is later.
Tick ==
    /\ clock < MaxClock
    /\ clock' = clock + 1
    /\ UNCHANGED <<dbVars, saveVars, pubVars, mark, lg, pipeVars, polled, wire, otherVars>>

NextStamp ==
    \/ Tick
    \/ \E w \in Workers : PublishTaskMark(w)

SpecStamp == InitStamp /\ [][NextStamp]_vars

\* C28: mark_as_published is idempotent: a call for a record leaves it
\* published, a call for a record that is already marked changes nothing
\* (published_at stays as the first call set it), and a call for an unknown
\* id changes nothing.
C28_MarkIdempotent ==
    [][\A w \in Workers :
          (pubTask[w].pc = "mark" /\ pubTask'[w].pc = "idle") =>
              LET i == pubTask[w].id
              IN  /\ i \notin OutboxIds => outbox' = outbox
                  /\ i \in OutboxIds => outbox'[i].published
                  /\ (i \in OutboxIds /\ outbox[i].published) => outbox' = outbox]_vars

\* A task is about to call mark_as_published for a record that an earlier
\* call marked at an earlier time.
C28_SecondCallLater ==
    \E w \in Workers :
        /\ pubTask[w].pc = "mark"
        /\ pubTask[w].id \in OutboxIds
        /\ outbox[pubTask[w].id].published
        /\ outbox[pubTask[w].id].published_at # NullTime
        /\ outbox[pubTask[w].id].published_at < clock

(***************************************************************************)
(* SpecList: get_unpublished_events called with any limit on an outbox     *)
(* whose records were created at any times, marked or not.                 *)
(***************************************************************************)
ListIds == 1..(MaxOutbox + 1)
Limits == 0..(MaxOutbox + 2)

\* A record created at time t, marked (at that time) or not.
ListedRow(t, pub) ==
    [topic |-> TopicTranscribed, vid |-> 1, published |-> pub, attempts |-> 0,
     created_at |-> t, published_at |-> IF pub THEN t ELSE NullTime]

InitList ==
    /\ clock = MaxClock
    /\ polled = NotPolled
    /\ wire = WireIdle
    /\ OtherQuiet
    /\ transcripts = [v \in Videos |-> "ready"]
    /\ summaries = [v \in Videos |-> "none"]
    /\ outbox \in [ListIds -> {ListedRow(t, pub) : t \in 1..MaxClock, pub \in BOOLEAN}]
    /\ videoStatus = [v \in Videos |-> "summarizing"]
    /\ statusLog = [v \in Videos |-> <<"transcribing", "summarizing">>]
    /\ processed = {}
    /\ SaveQuiet
    /\ PubQuiet
    /\ MarkQuiet
    /\ LogQuiet
    /\ PipeQuiet

\* One call get_unpublished_events(limit), and what it returned.
GetUnpublishedEventsCall(limit) ==
    /\ polled' = [limit |-> limit, events |-> GetUnpublishedEvents(limit), done |-> TRUE]
    /\ UNCHANGED <<dbVars, saveVars, pubVars, mark, lg, pipeVars, clock, wire, otherVars>>

NextList == \E limit \in Limits : GetUnpublishedEventsCall(limit)

SpecList == InitList /\ [][NextList]_vars

\* C29: get_unpublished_events(limit) returns only unpublished records, each
\* once, in ascending created_at order, at most limit of them, and no
\* unpublished record older than a returned one is left out.
C29_OldestUnpublished ==
    polled.done =>
        LET events == polled.events
            n == Len(events)
        IN  /\ \A k \in 1..n : events[k] \in OutboxIds /\ ~outbox[events[k]].published
            /\ \A k, l \in 1..n : k < l =>
                  /\ events[k] # events[l]
                  /\ outbox[events[k]].created_at <= outbox[events[l]].created_at
            /\ n <= polled.limit
            /\ \A i \in OutboxIds : (~outbox[i].published /\ i \notin Range(events)) =>
                  \A k \in 1..n : outbox[events[k]].created_at <= outbox[i].created_at

\* A call with limit 0 returned records.
C29_LimitZeroReturnsAll ==
    /\ polled.done
    /\ polled.limit = 0
    /\ Len(polled.events) > polled.limit
    /\ Range(polled.events) = {i \in OutboxIds : ~outbox[i].published}

MaxDelays == 0..(2 * DefaultMaxDelay)

InitBackoff ==
    /\ clock = 1
    /\ polled = NotPolled
    /\ wire = WireIdle
    /\ \E i \in 0..MaxInitialDelay, m \in MaxDelays :
          backoff = [NoBackoff EXCEPT !.initial = i, !.max = m]
    /\ kloop = ConsumerLoopStart
    /\ sloop = SchedulerLoopStart
    /\ summ = SummaryNotStarted
    /\ transcripts = [v \in Videos |-> "none"]
    /\ summaries = [v \in Videos |-> "none"]
    /\ outbox = <<>>
    /\ videoStatus = [v \in Videos |-> "transcribing"]
    /\ statusLog = [v \in Videos |-> <<"transcribing">>]
    /\ processed = {}
    /\ SaveQuiet
    /\ PubQuiet
    /\ MarkQuiet
    /\ LogQuiet
    /\ PipeQuiet

\* retry_delay = calculate_exponential_backoff_delay(initial_delay,
\* current_retries, max_delay) for the next retry_count.
BackoffCall ==
    /\ backoff.calls <= MaxRetryCount
    /\ backoff' = [backoff EXCEPT
          !.calls = @ + 1,
          !.prev = backoff.delay,
          !.delay = CalculateExponentialBackoffDelay(backoff.initial, backoff.calls,
                                                     backoff.max)]
    /\ UNCHANGED <<dbVars, saveVars, pubVars, mark, lg, pipeVars, clock, polled, wire,
                   kloop, sloop, summ>>

NextBackoff == BackoffCall

SpecBackoff == InitBackoff /\ [][NextBackoff]_vars

\* C31: for non-negative initial, attempt and max the delay is
\* min(initial * 2^attempt, max) with attempt counted from zero; so
\* (10,0,300) gives 10, (10,1,300) 20, (10,5,300) 300 and (5,0,300) 5; the
\* delay never exceeds max and never decreases as attempt grows; and a call
\* changes nothing else.
C31_BackoffIsCappedPower ==
    /\ [](backoff.calls > 0 =>
            LET attempt == backoff.calls - 1
                power == backoff.initial * 2^attempt
            IN  /\ backoff.delay = IF power <= backoff.max THEN power ELSE backoff.max
                /\ backoff.delay <= backoff.max
                /\ backoff.calls > 1 => backoff.delay >= backoff.prev
                /\ (backoff.initial = 10 /\ backoff.max = 300) =>
                      /\ attempt = 0 => backoff.delay = 10
                      /\ attempt = 1 => backoff.delay = 20
                      /\ attempt = 5 => backoff.delay = 300
                /\ (backoff.initial = 5 /\ backoff.max = 300 /\ attempt = 0) =>
                      backoff.delay = 5)
    /\ [][backoff' # backoff =>
            UNCHANGED <<dbVars, saveVars, pubVars, mark, lg, pipeVars, clock, polled, wire>>]_vars

\* The sixth delay of a task with initial_delay 10 and max_delay 300: 320
\* capped to 300, after 160.
C31_Witness ==
    /\ backoff.initial = 10 /\ backoff.max = 300
    /\ backoff.calls = 6
    /\ backoff.prev = 160 /\ backoff.delay = 300

(***************************************************************************)
(* SpecLoops: the two long-running loops, KafkaConsumer.consume and        *)
(* OutboxPublisherScheduler.run_forever, with a shutdown request arriving  *)
(* at any moment and with handlers and poll cycles that fail.  What a      *)
(* handler or a cycle does to the stores is in the other specifications.   *)
(***************************************************************************)
offLoops ==
    <<dbVars, saveVars, pubVars, mark, lg, pipeVars, clock, polled, wire, backoff, summ>>

\* One more of something that happened after the shutdown request.
After(requested, n) == IF requested /\ n < MaxIterations THEN n + 1 ELSE n

\* _signal_handler (SIGINT, SIGTERM): self.shutdown_event.set()
ConsumerSignal ==
    /\ ~kloop.shutdown
    /\ ~kloop.closed
    /\ kloop' = [kloop EXCEPT !.shutdown = TRUE]
    /\ UNCHANGED <<sloop, offLoops>>

ConsumerLoopExitsNever(shutdown) == FALSE

\* while not self.shutdown_event.is_set()
ConsumerLoopExits(shutdown) == shutdown

\* The while condition is tested: the loop body begins, or the loop ends
\* and finally: self.consumer.close() runs.
ConsumerCheck ==
    /\ kloop.pc = "check"
    /\ IF ConsumerLoopExits(kloop.shutdown)
       THEN kloop' = [kloop EXCEPT !.pc = "closed", !.closed = TRUE, !.why = "shutdown"]
       ELSE kloop' = [kloop EXCEPT !.pc = "poll",
                                   !.begunAfter = After(kloop.shutdown, @)]
    /\ UNCHANGED <<sloop, offLoops>>

\* msg = self.consumer.poll(timeout=1.0) gives None or a message with an
\* error: continue.
ConsumerPollNothing ==
    /\ kloop.pc = "poll"
    /\ kloop' = [kloop EXCEPT !.pc = "check", !.pollsAfter = After(kloop.shutdown, @)]
    /\ UNCHANGED <<sloop, offLoops>>

\* poll gives a message: it is parsed and handed to the handler.
ConsumerPollMessage ==
    /\ kloop.pc = "poll"
    /\ kloop.handled < MaxIterations
    /\ kloop' = [kloop EXCEPT !.pc = "handle",
                              !.pollsAfter = After(kloop.shutdown, @),
                              !.handledAfter = After(kloop.shutdown, @)]
    /\ UNCHANGED <<sloop, offLoops>>

\* poll raises KafkaException: except KafkaException logs it, finally closes.
ConsumerPollRaises ==
    /\ kloop.pc = "poll"
    /\ kloop' = [kloop EXCEPT !.pc = "closed", !.closed = TRUE, !.why = "KafkaException"]
    /\ UNCHANGED <<sloop, offLoops>>

\* self.handler(payload) returns.
ConsumerHandlerReturns ==
    /\ kloop.pc = "handle"
    /\ kloop' = [kloop EXCEPT !.pc = "check", !.handled = @ + 1]
    /\ UNCHANGED <<sloop, offLoops>>

ConsumerAfterErrorCloses(kind) == [kloop EXCEPT !.pc = "closed", !.closed = TRUE, !.why = kind]

\* except json.JSONDecodeError / except Exception: logger.error, and the
\* while loop goes on.
ConsumerAfterError(kind) == [kloop EXCEPT !.pc = "check"]

\* The message cannot be decoded, or the handler raises.
ConsumerHandlerFails(kind) ==
    /\ kloop.pc = "handle"
    /\ kloop' = [ConsumerAfterError(kind) EXCEPT !.handled = @ + 1, !.errors = @ + 1]
    /\ UNCHANGED <<sloop, offLoops>>

ConsumerLoopStep ==
    \/ ConsumerCheck
    \/ ConsumerPollNothing
    \/ ConsumerPollMessage
    \/ ConsumerPollRaises
    \/ ConsumerHandlerReturns
    \/ \E kind \in {"undecodable", "handler"} : ConsumerHandlerFails(kind)

\* run_forever: self.running = True
SchedulerRunForever ==
    /\ sloop.pc = "start"
    /\ sloop' = [sloop EXCEPT !.pc = "check", !.running = TRUE]
    /\ UNCHANGED <<kloop, offLoops>>

\* stop(): self.running = False, while run_forever is running.
SchedulerStop ==
    /\ sloop.pc \in {"check", "cycle", "sleep"}
    /\ ~sloop.stop
    /\ sloop' = [sloop EXCEPT !.running = FALSE, !.stop = TRUE]
    /\ UNCHANGED <<kloop, offLoops>>

\* while self.running: the condition is tested, a cycle begins or
\* run_forever returns.
SchedulerCheck ==
    /\ sloop.pc = "check"
    /\ IF ~sloop.running
       THEN sloop' = [sloop EXCEPT !.pc = "stopped"]
       ELSE /\ sloop.cycles < MaxIterations
            /\ sloop' = [sloop EXCEPT !.pc = "cycle", !.cycles = @ + 1,
                                      !.cyclesAfter = After(sloop.stop, @)]
    /\ UNCHANGED <<kloop, offLoops>>

\* poll_and_publish returns; time.sleep(self.poll_interval) follows.
SchedulerCycleDone ==
    /\ sloop.pc = "cycle"
    /\ sloop' = [sloop EXCEPT !.pc = "sleep"]
    /\ UNCHANGED <<kloop, offLoops>>

\* An exception in a cycle.  While listing or queuing it is caught inside
\* poll_and_publish (except Exception: logger.error) and the sleep of the
\* try block follows; from SessionLocal() or db.close() it reaches
\* run_forever, whose except Exception logs it and sleeps.
SchedulerAfterError(kind) == [sloop EXCEPT !.pc = "sleep"]

SchedulerCycleFails(kind) ==
    /\ sloop.pc = "cycle"
    /\ sloop' = [SchedulerAfterError(kind) EXCEPT !.errors = @ + 1]
    /\ UNCHANGED <<kloop, offLoops>>

\* time.sleep(self.poll_interval) is over.
SchedulerSleep ==
    /\ sloop.pc = "sleep"
    /\ sloop' = [sloop EXCEPT !.pc = "check", !.sleepsAfter = After(sloop.stop, @)]
    /\ UNCHANGED <<kloop, offLoops>>

SchedulerLoopStep ==
    \/ SchedulerRunForever
    \/ SchedulerCheck
    \/ SchedulerCycleDone
    \/ \E kind \in {"listing", "queuing", "session"} : SchedulerCycleFails(kind)
    \/ SchedulerSleep

InitLoops ==
    /\ CallQuiet
    /\ transcripts = [v \in Videos |-> "none"]
    /\ summaries = [v \in Videos |-> "none"]
    /\ outbox = <<>>
    /\ videoStatus = [v \in Videos |-> "pending"]
    /\ statusLog = [v \in Videos |-> <<>>]
    /\ processed = {}
    /\ SaveQuiet
    /\ PubQuiet
    /\ MarkQuiet
    /\ LogQuiet
    /\ PipeQuiet

NextLoops ==
    \/ ConsumerSignal
    \/ ConsumerLoopStep
    \/ SchedulerStop
    \/ SchedulerLoopStep

SpecLoops == InitLoops /\ [][NextLoops]_vars

\* Both loops keep running: poll returns within its timeout, a handler and
\* a poll cycle end, a sleep is over after poll_interval.
SpecLoopsFair ==
    /\ SpecLoops
    /\ WF_vars(ConsumerLoopStep)
    /\ WF_vars(SchedulerLoopStep)

\* C32: after the shutdown request a loop begins no iteration: the consumer
\* finishes the poll it is in and handles at most the message that poll
\* returned, the scheduler starts no poll cycle and sleeps at most once;
\* both loops then end, and the consumer's connection is closed.
C32_ShutdownObserved ==
    /\ [](/\ kloop.begunAfter = 0
          /\ kloop.pollsAfter <= 1
          /\ kloop.handledAfter <= 1
          /\ sloop.cyclesAfter = 0
          /\ sloop.sleepsAfter <= 1)
    /\ kloop.shutdown ~> (kloop.pc = "closed" /\ kloop.closed)
    /\ sloop.stop ~> (sloop.pc = "stopped")

\* The signal arrived while the consumer was handling its second message
\* and stop() while the scheduler was in its second cycle; both loops have
\* ended, the scheduler after one more sleep.
C32_Witness ==
    /\ kloop.shutdown /\ kloop.pc = "closed" /\ kloop.closed /\ kloop.why = "shutdown"
    /\ kloop.handled = 2 /\ kloop.pollsAfter = 0
    /\ sloop.stop /\ sloop.pc = "stopped" /\ sloop.cycles = 2 /\ sloop.sleepsAfter = 1

\* C36: an exception in a poll cycle never ends run_forever: the loop
\* sleeps and, unless stopped, runs the next cycle; a handler exception or
\* an undecodable message never ends the consumer loop, which tests its
\* condition and, unless shut down, polls for the next message.
C36_LoopsSurviveErrors ==
    /\ [][/\ kloop.pc = "handle" => kloop'.pc \in {"handle", "check"}
          /\ sloop.pc = "cycle" => sloop'.pc \in {"cycle", "sleep"}]_vars
    /\ [](/\ kloop.pc = "closed" => kloop.why \in {"shutdown", "KafkaException"}
          /\ sloop.pc = "stopped" => sloop.stop)
    /\ \A n \in 1..MaxIterations :
          /\ (kloop.errors = n /\ ~kloop.closed) ~> (kloop.pc = "poll" \/ kloop.closed)
          /\ (sloop.errors = n /\ sloop.cycles = n /\ n < MaxIterations) ~>
                (sloop.cycles > n \/ sloop.stop)

\* Every message so far made the handler raise or could not be decoded and
\* every poll cycle so far failed; the consumer is polling again and the
\* scheduler is in its next cycle, neither asked to stop.
C36_Witness ==
    /\ kloop.errors = 2 /\ kloop.handled = 2 /\ kloop.pc = "poll" /\ ~kloop.shutdown
    /\ sloop.errors = 2 /\ sloop.cycles = 3 /\ sloop.pc = "cycle" /\ ~sloop.stop

\* The handler is inside `with db_session_context() as db_session` and the
\* session has run a statement (find_one or is_processed), so its
\* transaction is open; it ends with the commit or rollback at the end of
\* the block.
HandlerTransactionOpen ==
    \/ consumer.pc \in {"skipmark", "dispatch", "mark"}
    \/ consumer.pc = "isprocessed" /\ ChecksArtifact(consumer.handler)

\* C33: no call to the task executor is made while a storage transaction is
\* open: the handler queues the stage task before its session has run a
\* statement or after the session has ended.
C33_NoCallInsideTransaction ==
    [][consumer'.dispatched > consumer.dispatched => ~HandlerTransactionOpen]_vars

\* task.delay(payload) has been called and the handler is still inside the
\* session block, about to write the processed-message row.
C33_DispatchedInsideSession ==
    /\ consumer.pc = "mark"
    /\ consumer.queued /\ consumer.dispatched > 0
    /\ TasksOutstanding > 0
    /\ HandlerTransactionOpen

(***************************************************************************)
(* SpecBump: increment_attempts called by publish tasks whose send failed, *)
(* for records marked or not, with attempts already counted or not, and    *)
(* for an id no record has.                                                *)
(***************************************************************************)
\* A publish task whose send of record i failed, about to call
\* outbox_service.increment_attempts(UUID(event_id)).
AboutToIncrement(i) == [PubIdle EXCEPT !.pc = "incr", !.id = i]

InitBump ==
    /\ CallQuiet
    /\ transcripts = [v \in Videos |-> "ready"]
    /\ summaries = [v \in Videos |-> "none"]
    /\ outbox \in [RecordIds ->
          {[r EXCEPT !.attempts = a] :
              r \in {NewOutboxRow(TopicTranscribed, 1), MarkedRow(TopicTranscribed, 1)},
              a \in 0..MaxFaults}]
    /\ videoStatus = [v \in Videos |-> "summarizing"]
    /\ statusLog = [v \in Videos |-> <<"transcribing", "summarizing">>]
    /\ processed = {}
    /\ SaveQuiet
    /\ pubQueue = {}
    /\ pubTask \in [Workers -> {AboutToIncrement(i) : i \in StampIds}]
    /\ inflight = [i \in RecordIds |-> FALSE]
    /\ bus = [i \in RecordIds |-> outbox[i].published]
    /\ sent = [i \in RecordIds |-> IF outbox[i].published THEN 1 ELSE 0]
    /\ faults = 0
    /\ MarkQuiet
    /\ LogQuiet
    /\ PipeQuiet

NextBump ==
    \/ \E w \in Workers : PublishTaskIncrRead(w)
    \/ \E w \in Workers : PublishTaskIncrWrite(w)

SpecBump == InitBump /\ [][NextBump]_vars

\* C34: increment_attempts(id) raises the record's attempts by exactly 1
\* (no other write to the record coming between its read and its write)
\* and leaves published, published_at, topic and the rest of the record,
\* and every other record, unchanged; for an unknown id it changes nothing.
C34_IncrementFrame ==
    [][\A w \in Workers :
          (pubTask[w].pc \in {"incr", "incrwrite"} /\ pubTask'[w].pc # pubTask[w].pc) =>
              LET i == pubTask[w].id
              IN  /\ i \notin OutboxIds => outbox' = outbox /\ pubTask'[w].pc = "retry"
                  /\ pubTask[w].pc = "incr" => outbox' = outbox
                  /\ pubTask[w].pc = "incrwrite" =>
                        /\ outbox' = [outbox EXCEPT ![i].attempts = outbox'[i].attempts]
                        /\ pubTask[w].att = outbox[i].attempts =>
                              outbox'[i].attempts = outbox[i].attempts + 1]_vars

\* increment_attempts has returned for a record that is marked published
\* and had one attempt counted: two attempts now, still published, with the
\* published_at it had.
C34_Witness ==
    \E w \in Workers :
        /\ pubTask[w].pc = "retry"
        /\ pubTask[w].id \in OutboxIds
        /\ pubTask[w].att = 1
        /\ outbox[pubTask[w].id].attempts = 2
        /\ outbox[pubTask[w].id].published
        /\ outbox[pubTask[w].id].published_at = 1

\* C35: a stage task that starts when the video's artifact is already
\* complete returns 'exists' at its first check and changes nothing: the
\* artifact, the outbox, Videos.status and the status log stay as they are.
C35_ExistsChangesNothing ==
    [][(/\ task[1].pc = "check"
        /\ ArtifactComplete(PipeStage, consumer.vid)
        /\ task'[1] # task[1]) =>
            /\ task'[1].pc = "idle" /\ task'[1].ended = "exists"
            /\ UNCHANGED <<dbVars, taskQueue>>]_vars

\* The event was delivered twice and a task dispatched each time; the first
\* task completed the artifact, the second found it and returned 'exists':
\* one completion event in the outbox.
C35_Witness ==
    /\ consumer.dispatched = 2
    /\ task[1].pc = "idle" /\ task[1].ended = "exists"
    /\ TasksOutstanding = 0
    /\ ArtifactComplete(PipeStage, consumer.vid)
    /\ Cardinality(CompletionEvents) = 1
    /\ storageFaults = <<>>

(***************************************************************************)
(* SpecRace: one transcription task of a video, the outbox publisher and   *)
(* the summary stage the published video.transcribed event starts          *)
(* (handle_video_transcribed, summarize_video_task, process_summary), side *)
(* by side and without failures.  The transcription task runs on worker 1  *)
(* and the summary stage in another consumer process and another worker.   *)
(***************************************************************************)
\* The order of the states of a video; failed stands outside it.
StatusRank(st) ==
    CASE st = "pending" -> 0
      [] st = "transcribing" -> 1
      [] st = "summarizing" -> 2
      [] st = "indexing" -> 3
      [] st = "completed" -> 4
      [] OTHER -> 0

\* handle_video_transcribed receives the message of record i from the
\* broker: a complete summary ends it, otherwise summarize_video_task is
\* queued and the event marked processed.
SummaryHandle(i) ==
    /\ summ.pc = "idle"
    /\ i \in OutboxIds
    /\ outbox[i].topic = TopicTranscribed
    /\ bus[i]
    /\ summ' = IF summaries[outbox[i].vid] = "text"
               THEN [pc |-> "done", vid |-> outbox[i].vid, rid |-> i]
               ELSE [pc |-> "check", vid |-> outbox[i].vid, rid |-> i]
    /\ processed' = processed \cup {[id |-> i, topic |-> TopicTranscribed]}
    /\ UNCHANGED <<transcripts, summaries, outbox, videoStatus, statusLog, saveVars,
                   pubVars, mark, lg, pipeVars, clock, polled, wire, backoff, kloop,
                   sloop>>

\* What the summary stage leaves alone between its writes.
offSummary ==
    <<processed, saveVars, pubVars, mark, lg, pipeVars, clock, polled, wire, backoff,
      kloop, sloop>>

\* summarize_video_task: existing summary with summary_text -> 'exists'
SummaryTaskCheck ==
    /\ summ.pc = "check"
    /\ summ' = [summ EXCEPT !.pc = IF TaskReturnsExists(summaries[summ.vid] = "text")
                                   THEN "done" ELSE "work"]
    /\ UNCHANGED <<transcripts, summaries, outbox, videoStatus, statusLog, offSummary>>

\* process_summary, steps 1 to 6: download, chunk, map, reduce, score, upload.
SummaryWork ==
    /\ summ.pc = "work"
    /\ summ' = [summ EXCEPT !.pc = "save"]
    /\ UNCHANGED <<transcripts, summaries, outbox, videoStatus, statusLog, offSummary>>

\* _save_summary_with_outbox, 1: the summary row is created or updated.
SummarySave ==
    /\ summ.pc = "save"
    /\ summaries' = [summaries EXCEPT ![summ.vid] = "text"]
    /\ summ' = [summ EXCEPT !.pc = "status"]
    /\ UNCHANGED <<transcripts, outbox, videoStatus, statusLog, offSummary>>

\* _save_summary_with_outbox, 3: videos_repo.update({"status": "indexing"})
SummarySetIndexing ==
    /\ summ.pc = "status"
    /\ videoStatus' = [videoStatus EXCEPT ![summ.vid] = "indexing"]
    /\ summ' = [summ EXCEPT !.pc = "log"]
    /\ UNCHANGED <<transcripts, summaries, outbox, statusLog, offSummary>>

\* log_status_change(video_id, "indexing", ...)
SummaryLogIndexing ==
    /\ summ.pc = "log"
    /\ statusLog' = IF LogSkips(LatestStatus(summ.vid), "indexing") THEN statusLog
                    ELSE [statusLog EXCEPT ![summ.vid] = Append(@, "indexing")]
    /\ summ' = [summ EXCEPT !.pc = "outbox"]
    /\ UNCHANGED <<transcripts, summaries, outbox, videoStatus, offSummary>>

\* _save_summary_with_outbox, 4: add_to_outbox("video.summarized", ...)
SummaryAddToOutbox ==
    /\ summ.pc = "outbox"
    /\ outbox' = Append(outbox, NewOutboxRow(TopicSummarized, summ.vid))
    /\ summ' = [summ EXCEPT !.pc = "done"]
    /\ UNCHANGED <<transcripts, summaries, videoStatus, statusLog, offSummary>>

SummaryStageStep ==
    \/ \E i \in RecordIds : SummaryHandle(i)
    \/ SummaryTaskCheck
    \/ SummaryWork
    \/ SummarySave
    \/ SummarySetIndexing
    \/ SummaryLogIndexing
    \/ SummaryAddToOutbox

\* The steps of a stage task whose work and storage calls succeed.
TaskStepOk(w) ==
    \/ TaskStart(w)
    \/ TaskCheckExisting(w)
    \/ TaskFindVideo(w)
    \/ TaskSetStatus(w)
    \/ TaskLogRead(w)
    \/ TaskLogInsert(w)
    \/ TaskWorkOk(w)
    \/ TaskSaveFind(w)
    \/ TaskSaveWrite(w)
    \/ TaskAddToOutbox(w)

\* The steps of a publish task whose send and storage calls succeed.
PublishTaskStepOk(w) ==
    \/ \E t \in pubQueue : PublishTaskStart(w, t)
    \/ PublishTaskFind(w)
    \/ PublishTaskSendOk(w)
    \/ PublishTaskMark(w)

\* handle_video_transcoded has queued the transcription task of video 1.
InitRace ==
    /\ transcripts = [v \in Videos |-> "none"]
    /\ summaries = [v \in Videos |-> "none"]
    /\ outbox = <<>>
    /\ videoStatus = [v \in Videos |-> "pending"]
    /\ statusLog = [v \in Videos |-> <<>>]
    /\ processed = {[id |-> 1, topic |-> TopicTranscoded]}
    /\ consumer = [ConsumerIdle(HandleVideoTranscoded) EXCEPT
                      !.deliveries = 1, !.queued = TRUE, !.dispatched = 1]
    /\ taskQueue = [r \in 0..TaskMaxRetries |-> IF r = 0 THEN 1 ELSE 0]
    /\ task = [w \in Workers |-> TaskIdle]
    /\ workFailures = 0
    /\ storageFaults = <<>>
    /\ SaveQuiet
    /\ PubQuiet
    /\ MarkQuiet
    /\ LogQuiet
    /\ CallQuiet

NextRace ==
    \/ TaskStepOk(1)
    \/ PollAndPublish
    \/ \E w \in Workers : PublishTaskStepOk(w)
    \/ \E i \in RecordIds : Deliver(i)
    \/ SummaryStageStep

SpecRace == InitRace /\ [][NextRace]_vars

\* C37: leaving failed aside, Videos.status of a video only moves forward in
\* the order pending, transcribing, summarizing, indexing, completed, under
\* any interleaving of the transcription task, the outbox publisher and the
\* summary stage of the video; the transcription task's write of
\* 'summarizing' never overwrites a later 'indexing'.
C37_StatusOnlyForward ==
    [][\A v \in Videos :
          (videoStatus[v] # "failed" /\ videoStatus'[v] # "failed")
             => StatusRank(videoStatus'[v]) >= StatusRank(videoStatus[v])]_vars

\* The transcription task's 'summarizing' is the status of a video whose
\* summary is saved and whose status log has 'indexing' before it.
C37_SummarizingOverIndexing ==
    /\ videoStatus[1] = "summarizing"
    /\ summaries[1] = "text"
    /\ task[1].ended = "completed"
    /\ summ.pc = "done"
    /\ statusLog[1] = <<"transcribing", "indexing", "summarizing">>

\* C38: for the video and the stage, at most one completion event
\* (video.transcribed, video.summarized) is ever appended to the outbox, also
\* when the stage task is dispatched more than once or two instances of it
\* run side by side.
C38_OneCompletionEvent == Cardinality(CompletionEvents) <= 1

\* Two deliveries, two tasks that both passed their check before either
\* saved: the second save updated the row of the first and appended a
\* second completion event.
C38_TwoCompletionEvents ==
    /\ PipeQuiescent
    /\ consumer.dispatched = 2
    /\ Cardinality({w \in Workers : task[w].ended = "completed"}) = 2
    /\ ArtifactComplete(PipeStage, consumer.vid)
    /\ Cardinality(CompletionEvents) = 2

\* C39: absent bus send failures each outbox record is sent to the bus
\* exactly once, under any interleaving of overlapping poll cycles and
\* publish tasks: no publish task sends a record that was sent before.
C39_SentOnce ==
    [][\A w \in Workers :
          (/\ faults' = 0
           /\ pubTask[w].pc = "publish"
           /\ pubTask'[w].pc = AfterPublish(TRUE))
             => sent[pubTask[w].id] = 0]_vars

\* Two publish tasks of one record, queued by two polls, have both sent it
\* and neither has marked it yet; nothing has failed.
C39_SentTwice ==
    /\ faults = 0
    /\ pubTask[1].pc = "mark" /\ pubTask[2].pc = "mark"
    /\ pubTask[1].id = pubTask[2].id
    /\ ~outbox[pubTask[1].id].published
    /\ sent[pubTask[1].id] = SendCap

\* C40: whenever the video's status is failed, the artifact of the stage that
\* failed is not complete: no run leaves the video failed while its
\* transcript is 'ready' (its summary has text) and the completion event is
\* in the outbox, also when a step after the save fails or two tasks of the
\* stage run side by side.
C40_FailedMeansIncomplete ==
    (PipeQuiescent /\ videoStatus[consumer.vid] = "failed")
        => ~(/\ ArtifactComplete(PipeStage, consumer.vid)
             /\ HasCompletionEvent(PipeStage, consumer.vid))

\* Two transcription tasks side by side and nothing fails but the second
\* create, refused for the row of the first: transcribe_video's except
\* clause set the video failed over the first task's 'summarizing'.
C40_FailedWithReadyTranscript ==
    /\ PipeQuiescent
    /\ PipeStage = "transcription"
    /\ workFailures = 0
    /\ storageFaults = <<>>
    /\ consumer.dispatched = 2
    /\ videoStatus[consumer.vid] = "failed"
    /\ LatestStatus(consumer.vid) = "failed"
    /\ transcripts[consumer.vid] = "ready"
    /\ Cardinality(CompletionEvents) = 1
====
